---- MODULE Spec2Model ----
(***************************************************************************)
(* Safety-aware routing and risk scoring (TigerSafe / Campus Dispatch).    *)
(*                                                                         *)
(* Units.  Python floats are modelled by exact scaled integers:            *)
(*   edge "length"          hundredths of a metre                          *)
(*   "distance_m"           tenths of a metre (the code rounds to 1 digit) *)
(*   multipliers            tenths (1.8 -> 18, 1.3 -> 13)                  *)
(*   avg_severity           thousandths (the code rounds to 3 digits)      *)
(* Exact arithmetic stands for the float arithmetic; where the code rounds *)
(* (round(x, 1), round(x)) the model rounds half-to-even as Python does.   *)
(***************************************************************************)
EXTENDS Integers, Sequences, FiniteSets, TLC

VARIABLES
    \* ---- route_engine.find_alternative_routes (one call, step by step)
    net,               \* G: the road network the call runs on
    orig_node,         \* ox.nearest_nodes(G, origin)
    dest_node,         \* ox.nearest_nodes(G, dest)
    num_alternatives,  \* the argument k
    weight,            \* "length" or "safety_weight"
    pc,                \* position inside find_alternative_routes
    yielded,           \* node paths path_gen has handed out so far
    routes,            \* the local list `routes`
    seen_lengths,      \* the local set `seen_lengths`
    count,             \* the local counter `count`
    pulled,            \* how many candidates the for loop has taken from path_gen
    \* ---- risk_scorer.score_route / safety._calculate_risk_score
    call,              \* the last scoring call: its function, inputs and result
    \* ---- risk_scorer.compare_routes
    cmp,               \* the last comparison: input list, a permutation of it, both results
    \* ---- temporal model and safety.compute_safety_weights
    G,                 \* edge -> attribute dict of the walking graph of safety.py
    ghour,             \* <<h>> once compute_safety_weights(G, h) has run, <<>> before
    tcall,             \* the last lookup of the temporal model: function, hour, result
    \* ---- single-route searches of route_engine.py and safety.py
    rcall,             \* the last search: its function, network, end nodes and outcome
    \* ---- corridor aggregates: phones, patrol samples, incidents
    dcall,             \* the last aggregate call: its function, inputs and outcome
    \* ---- agent.chat and agent.execute_tool
    conversation_history,  \* the list chat() appends to: role and kind of each message
    chat,              \* position inside chat(): pc, loop iteration, calls made so far
    xcall,             \* the last execute_tool call: its inputs and the JSON it returned
    \* ---- app.py: one Streamlit session
    session_state,     \* st.session_state: selections and results
    run                \* the last script run: what was pressed and what it found

vars == <<net, orig_node, dest_node, num_alternatives, weight, pc, yielded, routes,
          seen_lengths, count, pulled, call, cmp, G, ghour, tcall, rcall, dcall,
          conversation_history, chat, xcall, session_state, run>>

altVars == <<net, orig_node, dest_node, num_alternatives, weight, pc, yielded, routes,
             seen_lengths, count, pulled>>

appVars == <<conversation_history, chat, xcall, session_state, run>>

notAltVars == <<call, cmp, G, ghour, tcall, rcall, dcall, conversation_history, chat, xcall,
                session_state, run>>

(***************************************************************************)
(* Bounds of the model.                                                    *)
(***************************************************************************)
MaxK == 2          \* num_alternatives ranges over 0..MaxK
MaxCrimes == 2     \* incidents in one route corridor: 0..MaxCrimes
MaxEdgeCrimes == 3 \* incidents summed over the edges of one route: 0..MaxEdgeCrimes
MaxPhones == 6     \* emergency phones along one route: 0..MaxPhones
HourSlack == 1     \* hour arguments range over -HourSlack .. 23 + HourSlack
MaxRoutes == 3     \* compare_routes is given lists of 0..MaxRoutes routes

(***************************************************************************)
(* Arithmetic helpers.                                                     *)
(***************************************************************************)
Range(s) == {s[i] : i \in 1..Len(s)}

MinOf(S) == CHOOSE x \in S : \A y \in S : x <= y

Abs(x) == IF x < 0 THEN -x ELSE x

\* Python round(n / d) for n >= 0, d > 0: nearest integer, ties to the even one.
RoundHalfEven(n, d) ==
    LET q == n \div d
        r == n % d
    IN  IF 2 * r < d THEN q
        ELSE IF 2 * r > d THEN q + 1
        ELSE IF q % 2 = 0 THEN q ELSE q + 1

(***************************************************************************)
(* Road networks: directed multigraphs.  An edge is                        *)
(*   [u, v, k, length, safety_weight]                                      *)
(* with k the key among parallel edges.                                    *)
(***************************************************************************)
Edge(u, v, k, len, sw) ==
    [u |-> u, v |-> v, k |-> k, length |-> len, safety_weight |-> sw]

\* Complete digraph on five nodes, every street 1.00 m: 16 loopless paths per pair.
Dense5 ==
    [nodes |-> 1..5,
     edges |-> {Edge(a, b, 0, 100, 1) : a, b \in 1..5} \ {Edge(a, a, 0, 100, 1) : a \in 1..5}]

\* Four ways from 1 to 4 whose lengths sit around the 50 m bucket boundaries:
\* 80.0 m direct, 124.9 m via 2, 125.1 m via 3, 175.04 m via 5.
Ladder ==
    [nodes |-> 1..5,
     edges |-> {Edge(1, 4, 0, 8000, 9),
                Edge(1, 2, 0, 6245, 1), Edge(2, 4, 0, 6245, 1),
                Edge(1, 3, 0, 6255, 2), Edge(3, 4, 0, 6255, 2),
                Edge(1, 5, 0, 8752, 1), Edge(5, 4, 0, 8752, 1)}]

\* Parallel streets between the same two nodes: the short one is the unsafe one.
Parallel ==
    [nodes |-> 1..3,
     edges |-> {Edge(1, 2, 0, 30000, 9), Edge(1, 2, 1, 40000, 2),
                Edge(2, 3, 0, 10000, 1), Edge(2, 3, 1, 2500, 8),
                Edge(1, 3, 0, 60000, 1),
                Edge(3, 1, 0, 12500, 3)}]

\* Two components: nothing leads from {1,2} to {3,4}.
Split ==
    [nodes |-> 1..4,
     edges |-> {Edge(1, 2, 0, 5000, 1), Edge(2, 1, 0, 5000, 1),
                Edge(3, 4, 0, 7500, 1)}]

\* Two ways round a block, both exactly 100.0 m.
Diamond ==
    [nodes |-> 1..4,
     edges |-> {Edge(1, 2, 0, 5000, 1), Edge(2, 4, 0, 5000, 1),
                Edge(1, 3, 0, 5000, 2), Edge(3, 4, 0, 5000, 2)}]

Networks == {Dense5, Ladder, Parallel, Split, Diamond}

Weights == {"length", "safety_weight"}

EdgeAttr(e, w) == IF w = "length" THEN e.length ELSE e.safety_weight

\* G[u][v]: the parallel edges from u to v.
EdgesBetween(g, u, v) == {e \in g.edges : e.u = u /\ e.v = v}

Successors(g, u) == {e.v : e \in {x \in g.edges : x.u = u}}

\* The loopless paths that extend the node sequence p to the node t.
RECURSIVE PathsFrom(_, _, _)
PathsFrom(g, p, t) ==
    IF p[Len(p)] = t THEN {p}
    ELSE UNION {PathsFrom(g, Append(p, v), t) : v \in Successors(g, p[Len(p)]) \ Range(p)}

SimplePaths(g, s, t) == PathsFrom(g, <<s>>, t)

\* networkx costs a hop of a multigraph by its cheapest parallel edge.
RECURSIVE PathCost(_, _, _)
PathCost(g, p, w) ==
    IF Len(p) < 2 THEN 0
    ELSE MinOf({EdgeAttr(e, w) : e \in EdgesBetween(g, p[1], p[2])})
         + PathCost(g, Tail(p), w)

\* A generator that hands out the loopless paths in any order.
NextPathsAnyOrder(g, s, t, w, done) == SimplePaths(g, s, t) \ done

\* The candidates path_gen may hand out next: shortest_simple_paths yields the
\* loopless paths in non-decreasing cost; the order among equal costs is its own.
NextPaths(g, s, t, w, done) ==
    LET rest == SimplePaths(g, s, t) \ done
    IN  {p \in rest : \A q \in rest : PathCost(g, p, w) <= PathCost(g, q, w)}

\* nx.shortest_path(G, s, t, weight): the cheapest paths; none means NetworkXNoPath.
ShortestPaths(g, s, t, w) == NextPaths(g, s, t, w, {})

(***************************************************************************)
(* route_engine._extract_route_info                                        *)
(***************************************************************************)
None == [num_nodes |-> 0]

\* total_length over the hops, each hop by its parallel edge of minimum length.
RECURSIVE TotalLength(_, _)
TotalLength(g, p) ==
    IF Len(p) < 2 THEN 0
    ELSE MinOf({e.length : e \in EdgesBetween(g, p[1], p[2])}) + TotalLength(g, Tail(p))

\* round(total_length, 1): hundredths of a metre to tenths.
Round1(hundredths) == RoundHalfEven(hundredths, 10)

extract_route_info(g, route_nodes, origin, dest) ==
    IF Len(route_nodes) < 2 THEN None
    ELSE [coordinates |-> route_nodes,
          distance_m  |-> Round1(TotalLength(g, route_nodes)),
          num_nodes   |-> Len(route_nodes),
          origin      |-> origin,
          destination |-> dest]

(***************************************************************************)
(* route_engine.find_route                                                 *)
(***************************************************************************)
\* A find_route that answers a missing path with an empty route.
find_route_empty_route(g, s, t, w) ==
    IF ShortestPaths(g, s, t, w) = {}
    THEN {[coordinates |-> <<>>, distance_m |-> 0, num_nodes |-> 1, origin |-> s, destination |-> t]}
    ELSE {extract_route_info(g, p, s, t) : p \in ShortestPaths(g, s, t, w)}

\* The results find_route may return: None when there is no path.
find_route(g, s, t, w) ==
    IF ShortestPaths(g, s, t, w) = {} THEN {None}
    ELSE {extract_route_info(g, p, s, t) : p \in ShortestPaths(g, s, t, w)}

(***************************************************************************)
(* route_engine.find_alternative_routes                                    *)
(***************************************************************************)
\* A length key that truncates instead of rounding.
length_key_floor(info) == (info.distance_m \div 500) * 50

\* length_key = round(info["distance_m"] / 50) * 50, in metres.
length_key(info) == RoundHalfEven(info.distance_m, 500) * 50

\* `if count >= num_alternatives * 5: break`
BudgetSpent(c, k) == c >= k * 5

\* A duplicate test that never rejects.
IsDuplicateNever(key, seen) == FALSE

\* `if length_key in seen_lengths: continue`
IsDuplicate(key, seen) == key \in seen

\* A stop test that is off by one.
EnoughRoutesLate(rs, k) == Len(rs) > k

\* `if len(routes) >= num_alternatives: break`
EnoughRoutes(rs, k) == Len(rs) >= k

InitAlt ==
    /\ net \in Networks
    /\ orig_node \in net.nodes
    /\ dest_node \in net.nodes
    /\ num_alternatives \in 0..MaxK
    /\ weight \in Weights
    /\ pc = "loop"
    /\ yielded = {}
    /\ routes = <<>>
    /\ seen_lengths = {}
    /\ count = 0
    /\ pulled = 0
    /\ call = "idle" /\ cmp = "idle" /\ G = "idle" /\ ghour = "idle" /\ tcall = "idle"
    /\ rcall = "idle" /\ dcall = "idle"
    /\ conversation_history = "idle" /\ chat = "idle" /\ xcall = "idle"
    /\ session_state = "idle" /\ run = "idle"

\* One turn of `for route_nodes in path_gen:` with the whole loop body.
NextCandidate ==
    /\ pc = "loop"
    /\ \E p \in NextPaths(net, orig_node, dest_node, weight, yielded) :
         LET info == extract_route_info(net, p, orig_node, dest_node)
             key  == length_key(info)
         IN  /\ yielded' = yielded \cup {p}
             /\ pulled' = pulled + 1
             /\ IF BudgetSpent(count, num_alternatives)
                THEN /\ pc' = "fallback"
                     /\ UNCHANGED <<routes, seen_lengths, count>>
                ELSE IF info = None
                THEN UNCHANGED <<pc, routes, seen_lengths, count>>
                ELSE IF IsDuplicate(key, seen_lengths)
                THEN UNCHANGED <<pc, routes, seen_lengths, count>>
                ELSE /\ seen_lengths' = seen_lengths \cup {key}
                     /\ routes' = Append(routes, info)
                     /\ IF EnoughRoutes(routes', num_alternatives)
                        THEN pc' = "fallback" /\ count' = count
                        ELSE pc' = "loop" /\ count' = count + 1
    /\ UNCHANGED <<net, orig_node, dest_node, num_alternatives, weight>>
    /\ UNCHANGED notAltVars

\* path_gen is exhausted, or raised NetworkXNoPath on its first item.
Exhausted ==
    /\ pc = "loop"
    /\ NextPaths(net, orig_node, dest_node, weight, yielded) = {}
    /\ pc' = "fallback"
    /\ UNCHANGED <<net, orig_node, dest_node, num_alternatives, weight, yielded,
                   routes, seen_lengths, count, pulled>>
    /\ UNCHANGED notAltVars

\* `if not routes: single = find_route(...); if single: routes.append(single)`
Fallback ==
    /\ pc = "fallback"
    /\ pc' = "done"
    /\ IF routes = <<>>
       THEN \E single \in find_route(net, orig_node, dest_node, weight) :
              routes' = IF single = None THEN routes ELSE Append(routes, single)
       ELSE routes' = routes
    /\ UNCHANGED <<net, orig_node, dest_node, num_alternatives, weight, yielded,
                   seen_lengths, count, pulled>>
    /\ UNCHANGED notAltVars

NextAlt == NextCandidate \/ Exhausted \/ Fallback

SpecAlt == InitAlt /\ [][NextAlt]_vars


(***************************************************************************)
(* risk_scorer: temporal periods, travel modes, score weights.             *)
(* Multipliers are in tenths, weights in hundredths.                       *)
(***************************************************************************)
Period(name, lo, hi, mult, label) ==
    [name |-> name, lo |-> lo, hi |-> hi, multiplier |-> mult, label |-> label]

\* TEMPORAL_PERIODS in the dict's insertion order; "hours" is range(lo, hi).
TEMPORAL_PERIODS ==
    << Period("late_night",     0,  6, 18, "Late Night (12am-6am)"),
       Period("early_morning",  6,  9,  5, "Early Morning (6am-9am)"),
       Period("daytime",        9, 17,  3, "Daytime (9am-5pm)"),
       Period("evening",       17, 20,  6, "Evening (5pm-8pm)"),
       Period("night",         20, 22, 10, "Night (8pm-10pm)"),
       Period("late_evening",  22, 24, 15, "Late Evening (10pm-12am)") >>

InHoursInclusive(hour, info) == info.lo <= hour /\ hour <= info.hi

\* `hour in info["hours"]`
InHours(hour, info) == info.lo <= hour /\ hour < info.hi

\* The value returned when no period holds the hour.
DefaultPeriod == Period("night", 20, 22, 10, "Night")

get_temporal_period(hour) ==
    LET hits == {i \in 1..Len(TEMPORAL_PERIODS) : InHours(hour, TEMPORAL_PERIODS[i])}
    IN  IF hits = {} THEN DefaultPeriod ELSE TEMPORAL_PERIODS[MinOf(hits)]

get_temporal_multiplier(hour) == get_temporal_period(hour).multiplier

Modes == {"walk", "bike", "drive", "scooter"}

\* MODE_MULTIPLIERS.get(mode, 1.0)
MODE_MULTIPLIERS(mode) ==
    CASE mode = "walk"  -> 13
      [] mode = "bike"  -> 10
      [] mode = "drive" -> 5
      [] OTHER          -> 10

CRIME_WEIGHT == 45
TEMPORAL_WEIGHT == 25
INFRASTRUCTURE_WEIGHT == 15
RECENCY_WEIGHT == 15

PatrolLevels == {"high", "moderate", "low", "unknown"}

\* {"high": 8, "moderate": 3, "low": 0, "unknown": 0}.get(level, 0)
PatrolReduction(level) ==
    CASE level = "high"     -> 8
      [] level = "moderate" -> 3
      [] OTHER              -> 0

\* A recency score with the rates of the two windows exchanged.
RecencyScoreSwappedRates(recent_7d, recent_30d) ==
    IF recent_7d > 0 THEN MinOf({recent_7d * 2, 20})
    ELSE IF recent_30d > 0 THEN MinOf({recent_30d * 5, 30})
    ELSE 0

\* recency_score from the 7-day and 30-day counts.
RecencyScore(recent_7d, recent_30d) ==
    IF recent_7d > 0 THEN MinOf({recent_7d * 5, 30})
    ELSE IF recent_30d > 0 THEN MinOf({recent_30d * 2, 20})
    ELSE 0

\* phone_reduction = min(phone_count * 3, 15)
PhoneReduction(phone_count) == MinOf({phone_count * 3, 15})

\* A score that is not clamped from below.
ClampNoFloor(num, den) == IF num > 100 * den THEN 100 * den ELSE num

\* max(0, min(100, raw_score)) on the fraction num / den, den > 0.
Clamp(num, den) ==
    IF num < 0 THEN 0 ELSE IF num > 100 * den THEN 100 * den ELSE num

\* The classification of final_score = num / den.
Level(num, den) ==
    IF num <= 20 * den THEN "Very Safe"
    ELSE IF num <= 40 * den THEN "Safe"
    ELSE IF num <= 60 * den THEN "Moderate Risk"
    ELSE IF num <= 80 * den THEN "Higher Risk"
    ELSE "High Risk"

Color(level) ==
    CASE level = "Very Safe"     -> "#22c55e"
      [] level = "Safe"          -> "#3b82f6"
      [] level = "Moderate Risk" -> "#eab308"
      [] level = "Higher Risk"   -> "#f97316"
      [] OTHER                   -> "#ef4444"

(***************************************************************************)
(* risk_scorer.score_route.                                                *)
(*   stats        what compute_crime_density_along_route returned          *)
(*   phone_count  what count_emergency_phones_along_route returned         *)
(*   patrol_level what estimate_patrol_frequency returned                  *)
(*   distance_m   route["distance_m"], tenths of a metre                   *)
(* crime_score is the exact fraction crime_num / crime_den with            *)
(* crime_den = max(distance_m, 100 m); raw_score and final_score are the   *)
(* fractions raw_num / den and final_num / den with den = 1000 * crime_den.*)
(* "score" and "crime_score" are the values rounded to one decimal, in     *)
(* tenths (final_num / den * 10 = final_num / (100 * crime_den)).          *)
(***************************************************************************)
\* A crime score in which a violent incident counts for less than any other.
CrimeScoreNumViolentDiscount(stats, cden) ==
    MinOf({(stats.total_crimes * 8 - stats.violent_crimes * 5) * (1000 + stats.avg_severity),
           100 * cden})

\* crime_score = min(crime_base * (1 + avg_severity), 100) as a fraction over cden.
CrimeScoreNum(stats, cden) ==
    MinOf({(stats.total_crimes * 8 + stats.violent_crimes * 15) * (1000 + stats.avg_severity),
           100 * cden})

\* A raw score that leaves TEMPORAL_WEIGHT out of the temporal term.
RawScoreNumUnweighted(crime_num, cden, temporal_mult, recency_score, phone_reduction, patrol_reduction, mode_mult) ==
    ( crime_num * CRIME_WEIGHT
      + cden * (temporal_mult * 3 * 100
                + recency_score * RECENCY_WEIGHT
                - phone_reduction * INFRASTRUCTURE_WEIGHT
                - patrol_reduction * INFRASTRUCTURE_WEIGHT) ) * mode_mult

\* raw_score, times 1000 * cden.
RawScoreNum(crime_num, cden, temporal_mult, recency_score, phone_reduction, patrol_reduction, mode_mult) ==
    ( crime_num * CRIME_WEIGHT
      + cden * (temporal_mult * 3 * TEMPORAL_WEIGHT
                + recency_score * RECENCY_WEIGHT
                - phone_reduction * INFRASTRUCTURE_WEIGHT
                - patrol_reduction * INFRASTRUCTURE_WEIGHT) ) * mode_mult

score_route(stats, phone_count, patrol_level, hour, mode, distance_m) ==
    LET cden     == IF distance_m > 1000 THEN distance_m ELSE 1000
        crime    == CrimeScoreNum(stats, cden)
        temporal == get_temporal_period(hour)
        recency  == RecencyScore(stats.recent_crimes_7d, stats.recent_crimes_30d)
        phone    == PhoneReduction(phone_count)
        patrol   == PatrolReduction(patrol_level)
        mode_m   == MODE_MULTIPLIERS(mode)
        den      == 1000 * cden
        raw      == RawScoreNum(crime, cden, temporal.multiplier, recency, phone,
                                patrol, mode_m)
        final    == Clamp(raw, den)
        level    == Level(final, den)
    IN  [score               |-> RoundHalfEven(final, 100 * cden),
         level               |-> level,
         color               |-> Color(level),
         crime_score         |-> RoundHalfEven(crime * 10, cden),
         temporal_period     |-> temporal.label,
         temporal_multiplier |-> temporal.multiplier,
         recency_score       |-> recency,
         emergency_phones_nearby |-> phone_count,
         phone_reduction     |-> phone,
         patrol_level        |-> patrol_level,
         patrol_reduction    |-> patrol,
         mode                |-> mode,
         mode_multiplier     |-> mode_m,
         crime_stats         |-> stats,
         \* the locals behind the rounded values
         crime_num           |-> crime,
         crime_den           |-> cden,
         raw_num             |-> raw,
         final_num           |-> final,
         den                 |-> den]

(***************************************************************************)
(* safety._calculate_risk_score.  phone_score is in twelfths,              *)
(* route_length_m in hundredths of a metre; scores are fractions over      *)
(* den = 4 * max(route_length_m, 100 m).                                   *)
(***************************************************************************)
INCIDENT_BASE_SCORE == 10
EMERGENCY_PHONE_REDUCTION == -5
NIGHTTIME_MULTIPLIER == 2

LevelColor(level) ==
    CASE level = "Very Safe"     -> "green"
      [] level = "Safe"          -> "blue"
      [] level = "Moderate Risk" -> "orange"
      [] level = "Higher Risk"   -> "red"
      [] OTHER                   -> "darkred"

ClampRiskNoFloor(num, den) == ClampNoFloor(num, den)

\* max(0, min(100, raw_score)) in _calculate_risk_score.
ClampRisk(num, den) == Clamp(num, den)

calculate_risk_score(crime_count, violent_count, phone_score, hour, route_length_m) ==
    LET base          == crime_count * INCIDENT_BASE_SCORE
        violent_bonus == violent_count * 15
        is_night      == hour >= 22 \/ hour < 6
        time_mult     == IF is_night THEN NIGHTTIME_MULTIPLIER ELSE 1
        \* min(phone_score * 3, 1.0) * EMERGENCY_PHONE_REDUCTION * -1, in quarters
        phone_red4    == MinOf({phone_score, 4}) * EMERGENCY_PHONE_REDUCTION * (-1)
        phone_adj4    == -phone_red4
        len           == IF route_length_m > 10000 THEN route_length_m ELSE 10000
        den           == 4 * len
        raw           == ((base + violent_bonus) * time_mult * 4 + phone_adj4) * 10000
        final         == ClampRisk(raw, den)
        level         == Level(final, den)
    IN  [score |-> RoundHalfEven(final * 10, den),
         level |-> level,
         color |-> LevelColor(level),
         base_crime_score    |-> base,
         violent_crime_bonus |-> violent_bonus,
         time_multiplier     |-> time_mult,
         is_nighttime        |-> is_night,
         raw_num   |-> raw,
         final_num |-> final,
         den       |-> den]


(***************************************************************************)
(* Scoring calls: score_route and _calculate_risk_score on every input of  *)
(* the bounded domains.                                                    *)
(***************************************************************************)
Hours == (0 - HourSlack)..(23 + HourSlack)

Severities == {0, 250, 500, 1000}

Distances == {0, 2500, 10000}

\* A corridor with one incident more, all of the last 30 days and at most one of
\* the last 7.
BusyStats ==
    {[total_crimes |-> MaxCrimes + 1, violent_crimes |-> 0, avg_severity |-> 500,
      recent_crimes_30d |-> MaxCrimes + 1, recent_crimes_7d |-> r7] : r7 \in 0..1}

\* The aggregates compute_crime_density_along_route can return: the violent and
\* the recent incidents are among the incidents of the corridor, and an empty
\* corridor gives the all-zero record.
CrimeStats ==
    {st \in [total_crimes : 0..MaxCrimes, violent_crimes : 0..MaxCrimes,
             avg_severity : Severities, recent_crimes_30d : 0..MaxCrimes,
             recent_crimes_7d : 0..MaxCrimes] :
        /\ st.violent_crimes <= st.total_crimes
        /\ st.recent_crimes_7d <= st.recent_crimes_30d
        /\ st.recent_crimes_30d <= st.total_crimes
        /\ (st.total_crimes = 0 => st.avg_severity = 0)}
    \cup BusyStats

PhoneScores == {0, 2, 4, 12}

RouteLengths == {0, 5000, 25000}

InitScore ==
    /\ call = [fn |-> "none"]
    /\ net = "idle" /\ orig_node = "idle" /\ dest_node = "idle"
    /\ num_alternatives = "idle" /\ weight = "idle" /\ pc = "idle"
    /\ yielded = "idle" /\ routes = "idle" /\ seen_lengths = "idle"
    /\ count = "idle" /\ pulled = "idle"
    /\ cmp = "idle" /\ G = "idle" /\ ghour = "idle" /\ tcall = "idle"
    /\ rcall = "idle" /\ dcall = "idle"
    /\ conversation_history = "idle" /\ chat = "idle" /\ xcall = "idle"
    /\ session_state = "idle" /\ run = "idle"

\* One call per behaviour: the functions are pure, a call depends on nothing before it.
ScoreRoute ==
    /\ call.fn = "none"
    /\ \E stats \in CrimeStats, phone_count \in 0..MaxPhones, level \in PatrolLevels,
          hour \in Hours, mode \in Modes, distance_m \in Distances :
         call' = [fn |-> "score_route",
                  stats |-> stats, phone_count |-> phone_count, patrol_level |-> level,
                  hour |-> hour, mode |-> mode, distance_m |-> distance_m,
                  out |-> score_route(stats, phone_count, level, hour, mode, distance_m)]
    /\ UNCHANGED <<altVars, cmp, G, ghour, tcall, rcall, dcall, appVars>>

CalculateRiskScore ==
    /\ call.fn = "none"
    /\ \E crime_count \in 0..MaxEdgeCrimes, violent_count \in 0..MaxEdgeCrimes,
          phone_score \in PhoneScores, hour \in Hours, route_length_m \in RouteLengths :
         /\ violent_count <= crime_count
         /\ call' = [fn |-> "calculate_risk_score",
                     crime_count |-> crime_count, violent_count |-> violent_count,
                     phone_score |-> phone_score, hour |-> hour,
                     route_length_m |-> route_length_m,
                     out |-> calculate_risk_score(crime_count, violent_count, phone_score,
                                                  hour, route_length_m)]
    /\ UNCHANGED <<altVars, cmp, G, ghour, tcall, rcall, dcall, appVars>>

NextScore == ScoreRoute \/ CalculateRiskScore

SpecScore == InitScore /\ [][NextScore]_vars


(***************************************************************************)
(* risk_scorer.compare_routes.                                             *)
(* A route is [name, distance_m, estimated_time_min, corridor]: name       *)
(* stands for its coordinates, and corridor holds what the spatial queries *)
(* of score_route return for those coordinates against the crimes, phones  *)
(* and traffic stops of the call.  estimated_time_min is in tenths of a    *)
(* minute; Inf stands for a route without the key.                         *)
(***************************************************************************)
Inf == 1000000

NoCrime ==
    [total_crimes |-> 0, violent_crimes |-> 0, avg_severity |-> 0,
     recent_crimes_30d |-> 0, recent_crimes_7d |-> 0]

Stats(t, v, sev, r30, r7) ==
    [total_crimes |-> t, violent_crimes |-> v, avg_severity |-> sev,
     recent_crimes_30d |-> r30, recent_crimes_7d |-> r7]

Route(name, d, time, stats, phones, patrol) ==
    [name |-> name, distance_m |-> d, estimated_time_min |-> time,
     corridor |-> [stats |-> stats, phone_count |-> phones, patrol_level |-> patrol]]

RoutePool ==
    { Route("quad",     2500,  30, NoCrime,                 0, "low"),
      Route("loop",    10000, 119, NoCrime,                 0, "unknown"),
      Route("alley",    2000,  24, Stats(2, 1, 500, 1, 1),  0, "low"),
      Route("avenue",  10000, 119, Stats(1, 0, 500, 1, 0),  2, "moderate"),
      Route("untimed",  2500, Inf, Stats(1, 1, 1000, 0, 0), 1, "high") }

CompareHours == {3, 14}

CompareModes == {"walk", "drive"}

\* x.get("estimated_time_min", float("inf"))
TimeKey(r) == r.estimated_time_min

\* The entry compare_routes appends to `scored` for one input route.
ScoredRoute(route, hour, mode) ==
    LET risk == score_route(route.corridor.stats, route.corridor.phone_count,
                            route.corridor.patrol_level, hour, mode, route.distance_m)
    IN  [name |-> route.name, distance_m |-> route.distance_m,
         estimated_time_min |-> route.estimated_time_min, corridor |-> route.corridor,
         risk_score |-> risk, crime_stats |-> risk.crime_stats]

\* An insertion that puts r before the entries of equal score.
InsertBeforeEqual(sorted, r) ==
    LET before == SelectSeq(sorted, LAMBDA x : x.risk_score.score < r.risk_score.score)
        after  == SelectSeq(sorted, LAMBDA x : x.risk_score.score >= r.risk_score.score)
    IN  before \o <<r>> \o after

\* r joins an already sorted list behind every entry whose score is not larger.
InsertByScore(sorted, r) ==
    LET before == SelectSeq(sorted, LAMBDA x : x.risk_score.score <= r.risk_score.score)
        after  == SelectSeq(sorted, LAMBDA x : x.risk_score.score > r.risk_score.score)
    IN  before \o <<r>> \o after

\* A sort that leaves the list as it is.
UnsortedByScore(scored) == scored

\* scored.sort(key=lambda r: r["risk_score"]["score"]): ascending and stable.
RECURSIVE SortByScore(_)
SortByScore(scored) ==
    IF scored = <<>> THEN <<>>
    ELSE InsertByScore(SortByScore(SubSeq(scored, 1, Len(scored) - 1)), scored[Len(scored)])

\* The fastest entry looked for among the entries behind the first one only.
FastestAmongRest(scored) ==
    IF Len(scored) < 2 THEN 1
    ELSE MinOf({i \in 2..Len(scored) :
                  \A j \in 2..Len(scored) : TimeKey(scored[i]) <= TimeKey(scored[j])})

\* min(scored, key=...): the index of the first entry of minimum time.
FastestIndex(scored) ==
    MinOf({i \in 1..Len(scored) :
             \A j \in 1..Len(scored) : TimeKey(scored[i]) <= TimeKey(scored[j])})

\* The label of the entry at the 0-based position i of the sorted list.
Recommendation(scored, i) ==
    IF i = 0 THEN "Safest Route"
    ELSE IF i + 1 = FastestIndex(scored) THEN "Fastest Route"
    ELSE "Alternative " \o ToString(i)

Labelled(r, label) ==
    [name |-> r.name, distance_m |-> r.distance_m,
     estimated_time_min |-> r.estimated_time_min, corridor |-> r.corridor,
     risk_score |-> r.risk_score, crime_stats |-> r.crime_stats,
     recommendation |-> label]

compare_routes(rs, hour, mode) ==
    LET scored == SortByScore([i \in 1..Len(rs) |-> ScoredRoute(rs[i], hour, mode)])
    IN  [i \in 1..Len(scored) |-> Labelled(scored[i], Recommendation(scored, i - 1))]

(***************************************************************************)
(* compare_routes on objects: a heap is a sequence of dicts, an object is  *)
(* its index.  The caller's list holds the objects 1..Len(rs).             *)
(***************************************************************************)
\* A "copy" that is the route object itself.
DictAlias(heap, ref) == [heap |-> heap, ref |-> ref]

\* route_copy = dict(route): a new object with the keys and values of the route.
DictCopy(heap, ref) == [heap |-> Append(heap, heap[ref]), ref |-> Len(heap) + 1]

\* F applied to the value of v, v evaluated once.
With(v, F(_)) == CHOOSE r \in {F(x) : x \in {v}} : TRUE

\* The for loop over routes[0..i-1]: the heap and the objects in `scored` behind it.
RECURSIVE ScoreLoop(_, _, _, _)
ScoreLoop(rs, i, hour, mode) ==
    IF i = 0 THEN [heap |-> rs, scored |-> <<>>]
    ELSE LET Body(prev) ==
                 LET Score(route_copy) ==
                         [heap   |-> [route_copy.heap EXCEPT
                                          ![route_copy.ref] = ScoredRoute(@, hour, mode)],
                          scored |-> Append(prev.scored, route_copy.ref)]
                 IN  With(DictCopy(prev.heap, i), Score)
         IN  With(ScoreLoop(rs, i - 1, hour, mode), Body)

\* The whole call on objects: the heap it leaves, the objects of the returned
\* list in order, and the caller's list read again after the call.
compare_routes_on_heap(rs, hour, mode) ==
    LET Tagged(loop) ==
            [j \in 1..Len(loop.scored) |->
                [ref |-> loop.scored[j],
                 risk_score |-> loop.heap[loop.scored[j]].risk_score,
                 estimated_time_min |-> loop.heap[loop.scored[j]].estimated_time_min]]
        Label(loop) ==
            LET Place(sorted) ==
                    LET Result(heap) ==
                            [heap   |-> heap,
                             scored |-> [j \in 1..Len(sorted) |-> heap[sorted[j].ref]],
                             routes |-> [i \in 1..Len(rs) |-> heap[i]]]
                    IN  With([o \in 1..Len(loop.heap) |->
                                 LET pos == {j \in 1..Len(sorted) : sorted[j].ref = o}
                                 IN  IF pos = {} THEN loop.heap[o]
                                     ELSE Labelled(loop.heap[o],
                                                   Recommendation(sorted,
                                                       (CHOOSE j \in pos : TRUE) - 1))],
                             Result)
            IN  With(SortByScore(Tagged(loop)), Place)
    IN  With(ScoreLoop(rs, Len(rs), hour, mode), Label)

RouteLists == UNION {[1..n -> RoutePool] : n \in 0..MaxRoutes}

\* The orders a list can be handed over in.
Permuted(rs) ==
    {[i \in 1..Len(rs) |-> rs[f[i]]] : f \in Permutations(1..Len(rs))}

InitCmp ==
    /\ cmp = [fn |-> "none"]
    /\ net = "idle" /\ orig_node = "idle" /\ dest_node = "idle"
    /\ num_alternatives = "idle" /\ weight = "idle" /\ pc = "idle"
    /\ yielded = "idle" /\ routes = "idle" /\ seen_lengths = "idle"
    /\ count = "idle" /\ pulled = "idle"
    /\ call = "idle" /\ G = "idle" /\ ghour = "idle" /\ tcall = "idle"
    /\ rcall = "idle" /\ dcall = "idle"
    /\ conversation_history = "idle" /\ chat = "idle" /\ xcall = "idle"
    /\ session_state = "idle" /\ run = "idle"

\* compare_routes on a list and on a permutation of it, the other arguments equal.
CompareRoutes ==
    /\ cmp.fn = "none"
    /\ \E rs \in RouteLists, hour \in CompareHours, mode \in CompareModes :
         \E ps \in Permuted(rs), on_heap \in {compare_routes_on_heap(rs, hour, mode)} :
           cmp' = [fn |-> "compare_routes", routes |-> rs, permuted |-> ps,
                   hour |-> hour, mode |-> mode,
                   routes_after |-> on_heap.routes,
                   out_on_heap |-> on_heap.scored,
                   out |-> compare_routes(rs, hour, mode),
                   out_permuted |-> compare_routes(ps, hour, mode)]
    /\ UNCHANGED <<altVars, call, G, ghour, tcall, rcall, dcall, appVars>>

NextCmp == CompareRoutes

SpecCmp == InitCmp /\ [][NextCmp]_vars


(***************************************************************************)
(* safety.py: temporal multiplier and compute_safety_weights.              *)
(* An edge's data is a dict: a record whose fields are the keys present.   *)
(*   length          hundredths of a metre   (default 100.0 m)             *)
(*   crime_density   thousandths per metre   (default 0.0)                 *)
(*   phone_score     twelfths                (default 0.0)                 *)
(*   safety_weight   multiples of 1/1500000                                *)
(***************************************************************************)
ALPHA == 4
BETA == 4
GAMMA == 2

Triple(name, start, end, mult) == [name |-> name, start |-> start, end |-> end, mult |-> mult]

\* TEMPORAL_MULTIPLIERS in the dict's insertion order.
TEMPORAL_MULTIPLIERS ==
    << Triple("late_night",     0,  6, 18),
       Triple("early_morning",  6,  9,  5),
       Triple("daytime",        9, 17,  3),
       Triple("evening",       17, 20,  6),
       Triple("night",         20, 22, 10),
       Triple("late_evening",  22, 24, 15) >>

\* `return 1.0` behind the loop.
DefaultMultiplier == 10

safety_get_temporal_multiplier(hour) ==
    LET hits == {i \in 1..Len(TEMPORAL_MULTIPLIERS) :
                   TEMPORAL_MULTIPLIERS[i].start <= hour /\ hour < TEMPORAL_MULTIPLIERS[i].end}
    IN  IF hits = {} THEN DefaultMultiplier ELSE TEMPORAL_MULTIPLIERS[MinOf(hits)].mult

\* data.get(key, default)
Get(data, key, default) == IF key \in DOMAIN data THEN data[key] ELSE default

SafetyWeightNoFloor(data, temporal_mult, alpha, beta, gamma) ==
    alpha * 3 * (LET length == Get(data, "length", 10000)
                 IN  IF length < 50000 THEN length ELSE 50000)
    + beta * 15 * Get(data, "crime_density", 0) * temporal_mult
    + gamma * 12500 * (12 - Get(data, "phone_score", 0))

\* max(safety_weight, 0.001) of one edge at the multiplier temporal_mult.
SafetyWeight(data, temporal_mult, alpha, beta, gamma) ==
    LET length        == Get(data, "length", 10000)
        crime_density == Get(data, "crime_density", 0)
        phone_score   == Get(data, "phone_score", 0)
        norm_length   == IF length < 50000 THEN length ELSE 50000
        safety_weight == alpha * 3 * norm_length
                         + beta * 15 * crime_density * temporal_mult
                         + gamma * 12500 * (12 - phone_score)
    IN  IF safety_weight > 1500 THEN safety_weight ELSE 1500

\* A dict that holds the weight and nothing else.
OnlySafetyWeight(data, w) == [key \in {"safety_weight"} |-> w]

\* G[u][v][k]["safety_weight"] = ...: the dict with the key set.
WithSafetyWeight(data, w) ==
    [key \in DOMAIN data \cup {"safety_weight"} |->
        IF key = "safety_weight" THEN w ELSE data[key]]

compute_safety_weights(g, hour, alpha, beta, gamma) ==
    LET temporal_mult == safety_get_temporal_multiplier(hour)
    IN  [e \in DOMAIN g |->
            WithSafetyWeight(g[e], SafetyWeight(g[e], temporal_mult, alpha, beta, gamma))]

\* The dicts an edge can carry before the weights are computed.
EdgeDicts ==
    LET lengths == {[length |-> l] : l \in {0, 60000}} \cup {<<>>}
        crimes  == {[crime_density |-> 20], <<>>}
        phones  == {[phone_score |-> 12], <<>>}
    IN  {l @@ c @@ p : l \in lengths, c \in crimes, p \in phones}

EdgeIds == {"e1", "e2"}

InitHour ==
    /\ G \in [EdgeIds -> EdgeDicts]
    /\ ghour = <<>>
    /\ tcall = [fn |-> "none"]
    /\ net = "idle" /\ orig_node = "idle" /\ dest_node = "idle"
    /\ num_alternatives = "idle" /\ weight = "idle" /\ pc = "idle"
    /\ yielded = "idle" /\ routes = "idle" /\ seen_lengths = "idle"
    /\ count = "idle" /\ pulled = "idle"
    /\ call = "idle" /\ cmp = "idle"
    /\ rcall = "idle" /\ dcall = "idle"
    /\ conversation_history = "idle" /\ chat = "idle" /\ xcall = "idle"
    /\ session_state = "idle" /\ run = "idle"

\* risk_scorer.get_temporal_period(hour): it has no raising path, it returns.
GetTemporalPeriod ==
    /\ tcall.fn = "none"
    /\ \E hour \in Hours :
         tcall' = [fn |-> "get_temporal_period", hour |-> hour, outcome |-> "returned",
                   multiplier |-> get_temporal_multiplier(hour),
                   name |-> get_temporal_period(hour).name]
    /\ UNCHANGED <<altVars, call, cmp, G, ghour, rcall, dcall, appVars>>

\* safety.get_temporal_multiplier(hour): it has no raising path, it returns.
GetTemporalMultiplier ==
    /\ tcall.fn = "none"
    /\ \E hour \in Hours :
         tcall' = [fn |-> "get_temporal_multiplier", hour |-> hour, outcome |-> "returned",
                   multiplier |-> safety_get_temporal_multiplier(hour),
                   name |-> "none"]
    /\ UNCHANGED <<altVars, call, cmp, G, ghour, rcall, dcall, appVars>>

\* safety.compute_safety_weights(G, hour): annotates G in place and returns it.
ComputeSafetyWeights ==
    /\ \E hour \in Hours :
         /\ G' = compute_safety_weights(G, hour, ALPHA, BETA, GAMMA)
         /\ ghour' = <<hour>>
    /\ UNCHANGED <<altVars, call, cmp, tcall, rcall, dcall, appVars>>

NextHour == GetTemporalPeriod \/ GetTemporalMultiplier \/ ComputeSafetyWeights

SpecHour == InitHour /\ [][NextHour]_vars

(***************************************************************************)
(* Properties of find_alternative_routes.                                  *)
(***************************************************************************)
\* The nodes a walk from the nodes of S can arrive at.
RECURSIVE ReachSet(_, _)
ReachSet(g, S) ==
    LET N == S \cup UNION {Successors(g, u) : u \in S}
    IN  IF N = S THEN S ELSE ReachSet(g, N)

Reachable(g, s, t) == t \in ReachSet(g, {s})

Returned == pc = "done"

RoutePairs == {ij \in (1..Len(routes)) \X (1..Len(routes)) : ij[1] # ij[2]}

\* The 50-metre length bucket of a distance given in tenths of a metre.
Bucket50(d) == 50 * RoundHalfEven(d, 500)

\* C2 (as claimed): with num_alternatives = k >= 1 the loop never takes more than
\* 5*k candidates from the path enumerator.
C2_CandidateBudget ==
    num_alternatives >= 1 => pulled <= 5 * num_alternatives

C4_DistinctBuckets ==
    /\ \A ij \in RoutePairs :
         Bucket50(routes[ij[1]].distance_m) # Bucket50(routes[ij[2]].distance_m)
    /\ pc = "loop" =>
         \A i \in 1..Len(routes) : Bucket50(routes[i].distance_m) \in seen_lengths

\* C4 witness: a call that returned two routes after rejecting a near-duplicate.
C4_Witness ==
    /\ Returned
    /\ Len(routes) = 2
    /\ pulled > Len(routes)
    /\ Cardinality(seen_lengths) = 2

Scored == call.fn = "score_route"

\* C1: the score of score_route and the score of _calculate_risk_score lie in
\* [0,100], before rounding (final_score) and as reported (score, in tenths).
C1_ScoreInRange ==
    call.fn \in {"score_route", "calculate_risk_score"} =>
        /\ call.out.final_num >= 0
        /\ call.out.final_num <= 100 * call.out.den
        /\ call.out.score >= 0
        /\ call.out.score <= 1000

\* C1 witness: a _calculate_risk_score call whose raw score was above 100.
C1_Witness ==
    /\ call.fn = "calculate_risk_score"
    /\ call.out.raw_num > 100 * call.out.den
    /\ call.out.score = 1000

\* temporalMultiplier * 30 * 0.25 * modeMultiplier as a fraction over out.den.
TemporalOnlyNum(out) == 75 * out.temporal_multiplier * out.mode_multiplier * out.crime_den

\* C10 (as claimed): with no incident in the corridor, crimeScore = 0, recencyScore = 0
\* and finalScore = temporalMultiplier*30*0.25*modeMultiplier, whatever the phones and
\* the patrol samples.
C10_CrimeFreeTemporalOnly ==
    (Scored /\ call.stats.total_crimes = 0) =>
        /\ call.out.crime_num = 0
        /\ call.out.recency_score = 0
        /\ call.out.final_num = TemporalOnlyNum(call.out)

\* C10 (amended): with no incident in the corridor, crimeScore = 0, recencyScore = 0 and
\* finalScore = max(0, (temporalMultiplier*30*0.25 - 0.15*phoneReduction
\* - 0.15*patrolReduction) * modeMultiplier); it is the temporal-only term when both
\* reductions are 0.
C10_CrimeFreeScore ==
    (Scored /\ call.stats.total_crimes = 0) =>
        LET out  == call.out
            full == (75 * out.temporal_multiplier
                     - 15 * (out.phone_reduction + out.patrol_reduction))
                    * out.mode_multiplier * out.crime_den
        IN  /\ out.crime_num = 0
            /\ out.crime_score = 0
            /\ out.recency_score = 0
            /\ out.final_num = (IF full < 0 THEN 0 ELSE full)
            /\ (out.phone_reduction = 0 /\ out.patrol_reduction = 0)
                  => out.final_num = TemporalOnlyNum(out)

\* C10 witness: a crime-free daytime walk with no phone and no known patrol.
C10_Witness ==
    /\ Scored
    /\ call.stats.total_crimes = 0
    /\ call.phone_count = 0
    /\ call.patrol_level = "unknown"
    /\ call.hour = 14
    /\ call.mode = "walk"
    /\ call.out.final_num = TemporalOnlyNum(call.out)
    /\ call.out.score > 0

(***************************************************************************)
(* Properties of compare_routes.                                           *)
(***************************************************************************)
Compared == cmp.fn = "compare_routes"

Names(seq) == [i \in 1..Len(seq) |-> seq[i].name]

\* C6 (as claimed): a permutation of the input list gives the same routes in the same
\* order with the same labels.
C6_OrderIndependent ==
    Compared => cmp.out = cmp.out_permuted

\* C6 (amended): the same, for lists in which no two different routes get the same
\* risk score.
C6_OrderIndependentNoTies ==
    (Compared /\ \A i, j \in 1..Len(cmp.out) :
                    cmp.out[i].risk_score.score = cmp.out[j].risk_score.score
                        => cmp.out[i].name = cmp.out[j].name)
        => cmp.out = cmp.out_permuted

\* C6 witness: three routes of three different scores, handed over in two orders.
C6_Witness ==
    /\ Compared
    /\ Len(cmp.routes) = 3
    /\ cmp.routes # cmp.permuted
    /\ \A i, j \in 1..3 :
         i # j => cmp.out[i].risk_score.score # cmp.out[j].risk_score.score
    /\ cmp.out = cmp.out_permuted

\* C7 (as claimed): of two or more routes, exactly one entry behind index 0 is labelled
\* "Fastest Route", the one of minimum time among the entries behind index 0.
C7_FastestAmongRemaining ==
    (Compared /\ Len(cmp.out) >= 2) =>
        LET rest    == 2..Len(cmp.out)
            fastest == {i \in rest : cmp.out[i].recommendation = "Fastest Route"}
        IN  /\ Cardinality(fastest) = 1
            /\ \A i \in fastest : \A j \in rest :
                 cmp.out[i].estimated_time_min <= cmp.out[j].estimated_time_min

\* C7 (amended): an entry behind index 0 is labelled "Fastest Route" exactly when it is
\* the first entry, in sorted order, whose time is the minimum over all entries, index 0
\* included; every other entry behind index 0 is "Alternative <index>".
C7_FastestOverall ==
    (Compared /\ Len(cmp.out) >= 2) =>
        \A i \in 2..Len(cmp.out) :
            LET first_min ==
                    /\ \A j \in 1..Len(cmp.out) :
                         cmp.out[i].estimated_time_min <= cmp.out[j].estimated_time_min
                    /\ \A j \in 1..(i - 1) :
                         cmp.out[j].estimated_time_min > cmp.out[i].estimated_time_min
            IN  cmp.out[i].recommendation =
                    (IF first_min THEN "Fastest Route" ELSE "Alternative " \o ToString(i - 1))

\* C7 witness: the safest route is slower than another one, which is labelled fastest.
C7_Witness ==
    /\ Compared
    /\ Len(cmp.out) = 3
    /\ \E i \in 2..3 :
         /\ cmp.out[i].recommendation = "Fastest Route"
         /\ cmp.out[i].estimated_time_min < cmp.out[1].estimated_time_min

\* C8: the result is in non-decreasing order of score, the routes of one score stand
\* in their input order, and index 0 is labelled "Safest Route".
C8_SortedStableSafest ==
    Compared =>
        LET out     == cmp.out
            score(n) == (CHOOSE x \in Range(out) : x.name = n).risk_score.score
            scores  == {out[i].risk_score.score : i \in 1..Len(out)}
        IN  /\ Len(out) = Len(cmp.routes)
            /\ \A i \in 1..(Len(out) - 1) :
                 out[i].risk_score.score <= out[i + 1].risk_score.score
            /\ \A s \in scores :
                 Names(SelectSeq(out, LAMBDA x : x.risk_score.score = s))
                   = Names(SelectSeq(cmp.routes, LAMBDA r : score(r.name) = s))
            /\ out # <<>> => out[1].recommendation = "Safest Route"

\* C8 witness: two different routes of equal score, given in the order loop, quad.
C8_Witness ==
    /\ Compared
    /\ Len(cmp.out) = 3
    /\ cmp.out[1].name = "loop"
    /\ cmp.out[2].name = "quad"
    /\ cmp.out[1].risk_score.score = cmp.out[2].risk_score.score
    /\ cmp.out[1].recommendation = "Safest Route"

(***************************************************************************)
(* Properties of the temporal model.                                       *)
(***************************************************************************)
ValidHour(h) == h \in 0..23

\* C9 (as claimed): an hour outside [0,23] is rejected by the temporal model as invalid
\* input, and after compute_safety_weights with such an hour no edge carries a
\* safety_weight.
C9_OutOfRangeHourRejected ==
    /\ (tcall.fn # "none" /\ ~ValidHour(tcall.hour)) => tcall.outcome = "InvalidInput"
    /\ (ghour # <<>> /\ ~ValidHour(ghour[1])) =>
           \A e \in DOMAIN G : "safety_weight" \notin DOMAIN G[e]

(***************************************************************************)
(* Properties of compute_safety_weights.                                   *)
(***************************************************************************)
Annotated == ghour # <<>>

\* C11: after compute_safety_weights(G, hour), whatever the hour and whichever of
\* length, crime_density and phone_score an edge carries, every edge of G has
\* safety_weight >= 0.001 (1500 in units of 1/1500000).
C11_WeightFloor ==
    Annotated =>
        \A e \in DOMAIN G :
            /\ "safety_weight" \in DOMAIN G[e]
            /\ G[e].safety_weight >= 1500

\* An edge of length 0 with no crime and a full phone score: its sum is 0 and the
\* floor is what it carries; its neighbour is a long edge with crime at night.
C11_Witness ==
    /\ Annotated
    /\ \E e \in DOMAIN G :
         /\ Get(G[e], "length", 10000) = 0
         /\ Get(G[e], "crime_density", 0) = 0
         /\ Get(G[e], "phone_score", 0) = 12
         /\ G[e].safety_weight = 1500
    /\ \E e \in DOMAIN G : G[e].safety_weight > 1500

(***************************************************************************)
(* Properties of the two temporal tables.                                  *)
(***************************************************************************)
Looked == tcall.fn # "none"

\* C12: for every integer hour in [0,23] exactly one of the six intervals of either
\* table holds the hour, the multiplier returned is that interval's
\* ([0,6) 1.8, [6,9) 0.5, [9,17) 0.3, [17,20) 0.6, [20,22) 1.0, [22,24) 1.5), and
\* risk_scorer.get_temporal_multiplier and safety.get_temporal_multiplier agree.
C12_TemporalPartition ==
    (Looked /\ ValidHour(tcall.hour)) =>
        LET h == tcall.hour
            claimed == CASE 0 <= h /\ h < 6    -> 18
                         [] 6 <= h /\ h < 9    -> 5
                         [] 9 <= h /\ h < 17   -> 3
                         [] 17 <= h /\ h < 20  -> 6
                         [] 20 <= h /\ h < 22  -> 10
                         [] 22 <= h /\ h < 24  -> 15
        IN  /\ Cardinality({i \in 1..Len(TEMPORAL_PERIODS) :
                              InHours(h, TEMPORAL_PERIODS[i])}) = 1
            /\ Cardinality({i \in 1..Len(TEMPORAL_MULTIPLIERS) :
                              TEMPORAL_MULTIPLIERS[i].start <= h
                              /\ h < TEMPORAL_MULTIPLIERS[i].end}) = 1
            /\ Len(TEMPORAL_PERIODS) = 6
            /\ Len(TEMPORAL_MULTIPLIERS) = 6
            /\ tcall.multiplier = claimed
            /\ get_temporal_multiplier(h) = safety_get_temporal_multiplier(h)

\* A lookup at an interval's first hour, where the interval before it ends.
C12_Witness ==
    /\ Looked
    /\ tcall.fn = "get_temporal_period"
    /\ tcall.hour = 22
    /\ tcall.name = "late_evening"
    /\ tcall.multiplier = 15

\* C14 (as claimed): compute_safety_weights for an hour h2 on a network that carries
\* the annotations of an hour h1 leaves the safety_weight values of that network
\* as they were.
C14_AnnotatedNetworkKept ==
    [][(Annotated /\ ghour' # ghour) =>
           \A e \in DOMAIN G : G'[e].safety_weight = G[e].safety_weight]_vars

(***************************************************************************)
(* safety.py: find_safest_route and find_fastest_route, and the single     *)
(* searches of route_engine.py, on the network and end nodes of the        *)
(* find_alternative_routes call.  The searches share no state with that    *)
(* call and with each other: one of them is made once it has returned.     *)
(* An edge may also carry                                                  *)
(*   crime_count, violent_crime_count   integers    (default 0)            *)
(*   phone_score                         twelfths    (default 0)           *)
(***************************************************************************)
\* A walking graph with annotated parallel streets; nothing leads back to node 1.
\* Its phone scores are 0 or 1.0, so the average over the (at most four) hops of
\* a route is a whole number of twelfths.
Campus ==
    [nodes |-> 1..3,
     edges |-> {Edge(1, 2, 0, 30000, 9) @@ [crime_count |-> 2, violent_crime_count |-> 1],
                Edge(1, 2, 1, 40000, 2) @@ [phone_score |-> 12],
                Edge(2, 3, 0, 10000, 1) @@ [crime_count |-> 1],
                Edge(3, 2, 0, 5000, 4) @@ [crime_count |-> 1],
                Edge(3, 2, 1, 5000, 4) @@ [phone_score |-> 12]}]

\* A crime-free graph whose safest way from 1 to 3 (direct, past a phone) is not
\* its shortest one (via 2).
Quiet ==
    [nodes |-> 1..3,
     edges |-> {Edge(1, 3, 0, 60000, 1) @@ [phone_score |-> 12, crime_count |-> 0,
                                            violent_crime_count |-> 0],
                Edge(1, 2, 0, 20000, 5), Edge(2, 3, 0, 20000, 5),
                Edge(3, 1, 0, 60000, 1)}]

RouteNetworks == Networks \cup {Campus, Quiet}

\* Node n lies at position 10 n of a line; a request's point is at a node or 4
\* beside it.
NodePos(n) == 10 * n

PointsAt(n) == {NodePos(n), NodePos(n) + 4}

\* ox.nearest_nodes(G, x, y): the node closest to the point, the first of them
\* when two are equally close.
nearest_nodes(g, point) ==
    CHOOSE n \in g.nodes :
        \A m \in g.nodes :
            \/ Abs(NodePos(n) - point) < Abs(NodePos(m) - point)
            \/ (Abs(NodePos(n) - point) = Abs(NodePos(m) - point) /\ n <= m)

\* min(G[u][v].values(), key=lambda d: d.get(w, inf)): the first edge of minimum w,
\* the parallel edges taken in key order.
BestEdge(g, u, v, w) ==
    CHOOSE e \in EdgesBetween(g, u, v) :
        \A f \in EdgesBetween(g, u, v) :
            \/ EdgeAttr(e, w) < EdgeAttr(f, w)
            \/ (EdgeAttr(e, w) = EdgeAttr(f, w) /\ e.k <= f.k)

\* edge_data of every hop of route_nodes.
RouteEdges(g, route_nodes, w) ==
    [i \in 1..(Len(route_nodes) - 1) |-> BestEdge(g, route_nodes[i], route_nodes[i + 1], w)]

\* total += edge_data.get(key, 0) over the hops.
RECURSIVE SumAttr(_, _)
SumAttr(es, key) ==
    IF es = <<>> THEN 0 ELSE Get(Head(es), key, 0) + SumAttr(Tail(es), key)

\* The hour argument: <<>> is None, <<h>> is the integer h.
HourArgs == {<<>>, <<0>>, <<3>>, <<14>>}

\* datetime.now().hour at the time of the call: a night hour or a day hour.
ClockHours == {2, 13}

\* `hour or datetime.now().hour`: None and 0 are falsy, the clock then decides.
EffectiveHours(hour) == IF hour = <<>> \/ hour = <<0>> THEN ClockHours ELSE {hour[1]}

ErrorResult == [error |-> "No path found between the given locations."]

\* The dict returned for route_nodes, its statistics from the w-cheapest edge
\* of every hop, scored at the hour h.
RouteResult(g, route_nodes, w, h, origin, destination) ==
    LET es                == RouteEdges(g, route_nodes, w)
        total_length      == SumAttr(es, "length")
        total_crime_count == SumAttr(es, "crime_count")
        total_violent     == SumAttr(es, "violent_crime_count")
        total_phone_score == SumAttr(es, "phone_score")
        edge_count        == Len(es)
        avg_phone_score   == total_phone_score \div (IF edge_count > 1 THEN edge_count ELSE 1)
    IN  [coordinates            |-> route_nodes,
         distance_m             |-> Round1(total_length),
         duration_min           |-> RoundHalfEven(total_length, 840),
         risk_score             |-> calculate_risk_score(total_crime_count, total_violent,
                                                         avg_phone_score, h, total_length),
         crime_count_nearby     |-> total_crime_count,
         violent_crimes_nearby  |-> total_violent,
         emergency_phones_score |-> RoundHalfEven(avg_phone_score * 100, 12),
         num_edges              |-> edge_count,
         origin                 |-> origin,
         destination            |-> destination]

\* The results find_safest_route may return.
find_safest_route(g, origin, destination, hour) ==
    LET orig_n == nearest_nodes(g, origin)
        dest_n == nearest_nodes(g, destination)
    IN  IF ShortestPaths(g, orig_n, dest_n, "safety_weight") = {} THEN {ErrorResult}
        ELSE {RouteResult(g, p, "safety_weight", h, origin, destination) :
                  p \in ShortestPaths(g, orig_n, dest_n, "safety_weight"),
                  h \in EffectiveHours(hour)}

\* The results find_fastest_route may return.
find_fastest_route(g, origin, destination, hour) ==
    LET orig_n == nearest_nodes(g, origin)
        dest_n == nearest_nodes(g, destination)
    IN  IF ShortestPaths(g, orig_n, dest_n, "length") = {} THEN {ErrorResult}
        ELSE {RouteResult(g, p, "length", h, origin, destination) :
                  p \in ShortestPaths(g, orig_n, dest_n, "length"),
                  h \in EffectiveHours(hour)}

InitRoute ==
    /\ net \in RouteNetworks
    /\ orig_node \in net.nodes
    /\ dest_node \in net.nodes
    /\ num_alternatives \in 0..MaxK
    /\ weight \in Weights
    /\ pc = "loop"
    /\ yielded = {}
    /\ routes = <<>>
    /\ seen_lengths = {}
    /\ count = 0
    /\ pulled = 0
    /\ rcall = [fn |-> "none"]
    /\ call = "idle" /\ cmp = "idle" /\ G = "idle" /\ ghour = "idle" /\ tcall = "idle"
    /\ dcall = "idle"
    /\ conversation_history = "idle" /\ chat = "idle" /\ xcall = "idle"
    /\ session_state = "idle" /\ run = "idle"

\* route_engine.find_route(G, origin, dest, weight)
FindRoute ==
    /\ pc = "done"
    /\ rcall.fn = "none"
    /\ \E w \in Weights : \E out \in find_route(net, orig_node, dest_node, w) :
         rcall' = [fn |-> "find_route", weight |-> w, hour |-> <<>>,
                   outcome |-> "returned", out |-> out]
    /\ UNCHANGED <<altVars, call, cmp, G, ghour, tcall, dcall, appVars>>

\* safety.find_safest_route(G, origin, destination, hour)
FindSafestRoute ==
    /\ pc = "done"
    /\ rcall.fn = "none"
    /\ \E hour \in HourArgs, origin \in PointsAt(orig_node), destination \in PointsAt(dest_node) :
         \E out \in find_safest_route(net, origin, destination, hour) :
             rcall' = [fn |-> "find_safest_route", weight |-> "safety_weight", hour |-> hour,
                       origin |-> origin, destination |-> destination,
                       outcome |-> "returned", out |-> out]
    /\ UNCHANGED <<altVars, call, cmp, G, ghour, tcall, dcall, appVars>>

\* safety.find_fastest_route(G, origin, destination, hour)
FindFastestRoute ==
    /\ pc = "done"
    /\ rcall.fn = "none"
    /\ \E hour \in HourArgs, origin \in PointsAt(orig_node), destination \in PointsAt(dest_node) :
         \E out \in find_fastest_route(net, origin, destination, hour) :
             rcall' = [fn |-> "find_fastest_route", weight |-> "length", hour |-> hour,
                       origin |-> origin, destination |-> destination,
                       outcome |-> "returned", out |-> out]
    /\ UNCHANGED <<altVars, call, cmp, G, ghour, tcall, dcall, appVars>>

NextRoute ==
    \/ NextCandidate
    \/ Exhausted
    \/ Fallback
    \/ FindRoute
    \/ FindSafestRoute
    \/ FindFastestRoute

SpecRoute == InitRoute /\ [][NextRoute]_vars

(***************************************************************************)
(* Properties of the route statistics.                                     *)
(***************************************************************************)
Searched == rcall.fn # "none"

FoundRoute == Searched /\ rcall.out # None /\ rcall.out # ErrorResult

\* The parallel edges from u to v of minimum cost under the objective w.
CheapestEdges(g, u, v, w) ==
    {e \in EdgesBetween(g, u, v) :
        \A f \in EdgesBetween(g, u, v) : EdgeAttr(e, w) <= EdgeAttr(f, w)}

\* The totals [length, crimes, violent, phones] a route can have when every hop
\* contributes one of its cheapest edges under w.
RECURSIVE CheapestTotals(_, _, _)
CheapestTotals(g, p, w) ==
    IF Len(p) < 2
    THEN {[length |-> 0, crimes |-> 0, violent |-> 0, phones |-> 0]}
    ELSE {[length  |-> e.length + r.length,
           crimes  |-> Get(e, "crime_count", 0) + r.crimes,
           violent |-> Get(e, "violent_crime_count", 0) + r.violent,
           phones  |-> Get(e, "phone_score", 0) + r.phones] :
              e \in CheapestEdges(g, p[1], p[2], w), r \in CheapestTotals(g, Tail(p), w)}

\* C13 (as claimed): the statistics of a returned route are those of the parallel
\* edges of minimum cost under the objective it was searched by: minimum
\* safety_weight for a safety_weight search, minimum length for a length search.
C13_StatsFromCheapestEdge ==
    /\ (FoundRoute /\ rcall.fn = "find_route") =>
           \E tot \in CheapestTotals(net, rcall.out.coordinates, rcall.weight) :
               rcall.out.distance_m = Round1(tot.length)
    /\ (FoundRoute /\ rcall.fn # "find_route" /\ rcall.out.num_edges > 0) =>
           \E tot \in CheapestTotals(net, rcall.out.coordinates, rcall.weight) :
               /\ rcall.out.distance_m = Round1(tot.length)
               /\ rcall.out.crime_count_nearby = tot.crimes
               /\ rcall.out.violent_crimes_nearby = tot.violent
               /\ rcall.out.emergency_phones_score
                     = RoundHalfEven(100 * (tot.phones \div rcall.out.num_edges), 12)
    /\ Returned =>
           \A i \in 1..Len(routes) :
               \E tot \in CheapestTotals(net, routes[i].coordinates, weight) :
                   routes[i].distance_m = Round1(tot.length)

(***************************************************************************)
(* Properties of the no-path outcome.                                      *)
(***************************************************************************)
NoPath == ~Reachable(net, orig_node, dest_node)

C15_LevelOfReportedScore ==
    Scored =>
        LET s    == call.out.score
            band == IF s <= 200 THEN <<"Very Safe", "#22c55e">>
                    ELSE IF s <= 400 THEN <<"Safe", "#3b82f6">>
                    ELSE IF s <= 600 THEN <<"Moderate Risk", "#eab308">>
                    ELSE IF s <= 800 THEN <<"Higher Risk", "#f97316">>
                    ELSE <<"High Risk", "#ef4444">>
        IN  call.out.level = band[1] /\ call.out.color = band[2]

\* C16 (as claimed): the scoring formula and the clamp, applied to the breakdown
\* values as reported (crime_score in tenths, so a fraction over 10), give the
\* reported score.
C16_BreakdownReproducesScore ==
    Scored =>
        LET b     == call.out
            raw   == RawScoreNum(b.crime_score, 10, b.temporal_multiplier, b.recency_score,
                                 b.phone_reduction, b.patrol_reduction, b.mode_multiplier)
            final == Clamp(raw, 1000 * 10)
        IN  RoundHalfEven(final, 100 * 10) = b.score

\* The statistics of the scored call with the violent count replaced.
WithViolent(v) == [call.stats EXCEPT !.violent_crimes = v]

\* C17: with the total, the average severity and the distance as they are in the
\* call, a larger violent-crime count never gives a smaller crime_score, neither
\* the exact one nor the one reported in the breakdown.
C17_ViolentMonotone ==
    Scored =>
        \A v \in (call.stats.violent_crimes + 1)..MaxCrimes :
            /\ CrimeScoreNum(WithViolent(v), call.out.crime_den) >= call.out.crime_num
            /\ score_route(WithViolent(v), call.phone_count, call.patrol_level, call.hour,
                           call.mode, call.distance_m).crime_score >= call.out.crime_score

\* One violent incident of two on a 250 m route: the crime score is below its cap
\* of 100 and a second violent incident raises it.
C17_Witness ==
    /\ Scored
    /\ call.stats.total_crimes = 2
    /\ call.stats.violent_crimes = 1
    /\ call.distance_m = 2500
    /\ call.out.crime_num < 100 * call.out.crime_den
    /\ CrimeScoreNum(WithViolent(2), call.out.crime_den) > call.out.crime_num

(***************************************************************************)
(* Corridor aggregates: crime_analyzer.compute_crime_density_along_route,  *)
(* risk_scorer.count_emergency_phones_along_route and                      *)
(* estimate_patrol_frequency, and score_route on the tables themselves.    *)
(* Geometry is one street: a coordinate is a position along it in units of *)
(* 100 m, and a route's LineString covers the stretch between its least    *)
(* and its greatest coordinate.  A table (DataFrame) is [columns, rows];   *)
(* NoTable is None.  A call's result is what it returned or what it raised.*)
(***************************************************************************)
NoTable == [absent |-> TRUE]

Table(columns, rows) == [columns |-> columns, rows |-> rows]

\* DataFrame.empty
Empty(t) == t.rows = <<>>

Ok(v) == [outcome |-> "returned", value |-> v]

Raise(e) == [outcome |-> "raised", error |-> e]

MaxOf(S) == CHOOSE x \in S : \A y \in S : y <= x

\* Distance from the position p to the LineString through route_coords.
DistToLine(p, route_coords) ==
    LET lo == MinOf(Range(route_coords))
        hi == MaxOf(Range(route_coords))
    IN  IF p < lo THEN lo - p ELSE IF p > hi THEN p - hi ELSE 0

\* point.within(route_line.buffer(buffer_m)): inside the buffer, not on its rim.
Within(p, route_coords, buffer_m) == DistToLine(p, route_coords) < buffer_m

\* The dict of the three early returns of compute_crime_density_along_route.
ZeroAggregate ==
    [total_crimes |-> 0, violent_crimes |-> 0, by_category |-> <<>>,
     avg_severity |-> 0, recent_crimes_30d |-> 0, recent_crimes_7d |-> 0]

RECURSIVE SumSeverity(_)
SumSeverity(rows) == IF rows = <<>> THEN 0 ELSE Head(rows).severity + SumSeverity(Tail(rows))

\* The aggregate over the rows `nearby` of a table with the given columns.
Aggregate(columns, nearby) ==
    LET n == Len(nearby)
    IN  [total_crimes      |-> n,
         violent_crimes    |-> IF "is_violent" \in columns
                               THEN Cardinality({i \in 1..n : nearby[i].is_violent})
                               ELSE 0,
         by_category       |-> IF "category" \in columns
                               THEN [c \in {nearby[i].category : i \in 1..n} |->
                                        Cardinality({i \in 1..n : nearby[i].category = c})]
                               ELSE <<>>,
         avg_severity      |-> IF "severity" \in columns
                               THEN RoundHalfEven(SumSeverity(nearby), n)
                               ELSE 0,
         recent_crimes_30d |-> IF "report_date" \in columns
                               THEN Cardinality({i \in 1..n : nearby[i].age_days <= 30})
                               ELSE 0,
         recent_crimes_7d  |-> IF "report_date" \in columns
                               THEN Cardinality({i \in 1..n : nearby[i].age_days <= 7})
                               ELSE 0]

\* A version that takes a route of one coordinate as a line of no length.
compute_crime_density_any_route(crimes, route_coords, buffer_m) ==
    IF crimes = NoTable THEN Raise("AttributeError")
    ELSE IF Empty(crimes) \/ route_coords = <<>> THEN Ok(ZeroAggregate)
    ELSE LET Near(r) == Within(r.pos, route_coords, buffer_m)
             nearby  == SelectSeq(crimes.rows, Near)
         IN  IF nearby = <<>> THEN Ok(ZeroAggregate)
             ELSE Ok(Aggregate(crimes.columns, nearby))

\* crimes.empty on None raises AttributeError; the three early returns follow.
compute_crime_density_along_route(crimes, route_coords, buffer_m) ==
    IF crimes = NoTable THEN Raise("AttributeError")
    ELSE IF Empty(crimes) \/ route_coords = <<>> THEN Ok(ZeroAggregate)
    ELSE IF Len(route_coords) < 2 THEN Ok(ZeroAggregate)
    ELSE LET Near(r) == Within(r.pos, route_coords, buffer_m)
             nearby  == SelectSeq(crimes.rows, Near)
         IN  IF nearby = <<>> THEN Ok(ZeroAggregate)
             ELSE Ok(Aggregate(crimes.columns, nearby))

count_emergency_phones_along_route(phones, route_coords, buffer_m) ==
    IF phones = NoTable THEN 0
    ELSE IF Empty(phones) \/ route_coords = <<>> THEN 0
    ELSE IF Len(route_coords) < 2 THEN 0
    ELSE Cardinality({i \in 1..Len(phones.rows) :
                         Within(phones.rows[i].pos, route_coords, buffer_m)})

UnknownPatrol == [patrol_level |-> "unknown", stop_count |-> 0, time_distribution |-> <<>>]

RECURSIVE SumCoords(_)
SumCoords(cs) == IF cs = <<>> THEN 0 ELSE Head(cs) + SumCoords(Tail(cs))

RECURSIVE SumRows(_)
SumRows(rows) == IF rows = <<>> THEN 0 ELSE Head(rows).n + SumRows(Tail(rows))

\* A classification that asks for more than 50 stops for "high".
PatrolLevelAbove(stop_count) ==
    IF stop_count > 50 THEN "high"
    ELSE IF stop_count >= 15 THEN "moderate"
    ELSE "low"

\* The classification of the number of stops near the route.
PatrolLevel(stop_count) ==
    IF stop_count >= 50 THEN "high"
    ELSE IF stop_count >= 15 THEN "moderate"
    ELSE "low"

\* A version that calls a table without any coordinate value a low patrol level.
estimate_patrol_frequency_low(traffic_stops, route_coords, buffer_m) ==
    IF traffic_stops = NoTable THEN UnknownPatrol
    ELSE IF Empty(traffic_stops) \/ route_coords = <<>> THEN UnknownPatrol
    ELSE IF ~({"lat", "lon"} \subseteq traffic_stops.columns) THEN UnknownPatrol
    ELSE LET HasCoords(r)      == r.coord # <<>>
             stops_with_coords == SelectSeq(traffic_stops.rows, HasCoords)
             Close(r) == Abs(Len(route_coords) * r.coord[1] - SumCoords(route_coords))
                             <= buffer_m * Len(route_coords)
             stop_count == SumRows(SelectSeq(stops_with_coords, Close))
         IN  [patrol_level |-> PatrolLevel(stop_count), stop_count |-> stop_count,
              time_distribution |-> <<>>]

\* A row of traffic_stops stands for n stops at one place: coord is <<>> where
\* lat/lon are NaN.  The tables carry no "hour_stop" column, so time_distribution
\* stays the empty dict.  A stop is near when it lies within buffer_m of the
\* centroid of the route (the mean of its coordinates).
estimate_patrol_frequency(traffic_stops, route_coords, buffer_m) ==
    IF traffic_stops = NoTable THEN UnknownPatrol
    ELSE IF Empty(traffic_stops) \/ route_coords = <<>> THEN UnknownPatrol
    ELSE IF ~({"lat", "lon"} \subseteq traffic_stops.columns) THEN UnknownPatrol
    ELSE LET HasCoords(r)      == r.coord # <<>>
             stops_with_coords == SelectSeq(traffic_stops.rows, HasCoords)
             Close(r) == Abs(Len(route_coords) * r.coord[1] - SumCoords(route_coords))
                             <= buffer_m * Len(route_coords)
             stop_count == SumRows(SelectSeq(stops_with_coords, Close))
         IN  IF stops_with_coords = <<>> THEN UnknownPatrol
             ELSE [patrol_level |-> PatrolLevel(stop_count), stop_count |-> stop_count,
                   time_distribution |-> <<>>]

\* score_route(route, crimes, phones, traffic_stops, hour, mode): the results it
\* may have; with hour None the clock decides.  The buffers are 200 m for
\* incidents and phones and 500 m for stops.
score_route_on_tables(route, crimes, phones, traffic_stops, hour, mode) ==
    LET coords      == Get(route, "coordinates", <<>>)
        distance_m  == Get(route, "distance_m", 0)
        crime_stats == compute_crime_density_along_route(crimes, coords, 2)
        phone_count == count_emergency_phones_along_route(phones, coords, 2)
        patrol_info == estimate_patrol_frequency(traffic_stops, coords, 5)
    IN  IF crime_stats.outcome = "raised" THEN {crime_stats}
        ELSE {Ok(score_route(crime_stats.value, phone_count, patrol_info.patrol_level,
                             h, mode, distance_m)) :
                  h \in IF hour = <<>> THEN ClockHours ELSE {hour[1]}}

\* Incidents as normalize_crime_category leaves them: at 100 m or at 900 m along
\* the street, a robbery reported 3 days ago or a theft reported 60 days ago.
Incident(pos, kind) ==
    IF kind = "Robbery"
    THEN [pos |-> pos, category |-> "Robbery", is_violent |-> TRUE, severity |-> 900,
          age_days |-> 3]
    ELSE [pos |-> pos, category |-> "Theft/Larceny", is_violent |-> FALSE, severity |-> 300,
          age_days |-> 60]

Incidents == {Incident(p, k) : p \in {1, 9}, k \in {"Robbery", "Theft/Larceny"}}

IncidentRows == UNION {[1..n -> Incidents] : n \in 0..MaxCrimes}

CrimeColumns == {"category", "is_violent", "severity", "report_date"}

\* None, and tables with all the derived columns or with the geometry alone.
CrimeTables ==
    {NoTable} \cup {Table(CrimeColumns, rows) : rows \in IncidentRows}
              \cup {Table({}, rows) : rows \in IncidentRows}

PhoneTables ==
    {NoTable} \cup {Table({"geometry"}, rows) :
                       rows \in {<<>>, <<[pos |-> 1]>>, <<[pos |-> 9]>>,
                                 <<[pos |-> 1], [pos |-> 9]>>, <<[pos |-> 1], [pos |-> 3]>>}}

Stops(coord, n) == [coord |-> coord, n |-> n]

StopTables ==
    {NoTable,
     Table({"lat", "lon"}, <<>>),
     Table({"hour_stop"}, <<Stops(<<>>, 50)>>),
     Table({"lat"}, <<Stops(<<2>>, 50)>>),
     Table({"lat", "lon"}, <<Stops(<<>>, 50)>>),
     Table({"lat", "lon"}, <<Stops(<<>>, 1), Stops(<<2>>, 1)>>),
     Table({"lat", "lon"}, <<Stops(<<2>>, 14)>>),
     Table({"lat", "lon"}, <<Stops(<<2>>, 15)>>),
     Table({"lat", "lon"}, <<Stops(<<2>>, 15), Stops(<<3>>, 34)>>),
     Table({"lat", "lon"}, <<Stops(<<2>>, 15), Stops(<<3>>, 35)>>),
     Table({"lat", "lon"}, <<Stops(<<9>>, 50)>>)}

\* Routes of no, one and two coordinates; distance_m in tenths of a metre.
RouteDicts ==
    {[coordinates |-> <<>>, distance_m |-> 0],
     [coordinates |-> <<0>>, distance_m |-> 0],
     [coordinates |-> <<0, 4>>, distance_m |-> 4000],
     [distance_m |-> 4000]}

InitData ==
    /\ dcall = [fn |-> "none"]
    /\ net = "idle" /\ orig_node = "idle" /\ dest_node = "idle"
    /\ num_alternatives = "idle" /\ weight = "idle" /\ pc = "idle"
    /\ yielded = "idle" /\ routes = "idle" /\ seen_lengths = "idle"
    /\ count = "idle" /\ pulled = "idle"
    /\ call = "idle" /\ cmp = "idle" /\ G = "idle" /\ ghour = "idle" /\ tcall = "idle"
    /\ rcall = "idle"
    /\ conversation_history = "idle" /\ chat = "idle" /\ xcall = "idle"
    /\ session_state = "idle" /\ run = "idle"

\* compute_crime_density_along_route(crimes, route_coords, buffer_m=200)
ComputeCrimeDensity ==
    /\ dcall.fn = "none"
    /\ \E crimes \in CrimeTables, route \in RouteDicts :
         dcall' = [fn |-> "compute_crime_density_along_route", crimes |-> crimes,
                   route_coords |-> Get(route, "coordinates", <<>>),
                   result |-> compute_crime_density_along_route(
                                  crimes, Get(route, "coordinates", <<>>), 2)]
    /\ UNCHANGED <<altVars, call, cmp, G, ghour, tcall, rcall, appVars>>

\* count_emergency_phones_along_route(phones, route_coords)
CountEmergencyPhones ==
    /\ dcall.fn = "none"
    /\ \E phones \in PhoneTables, route \in RouteDicts :
         dcall' = [fn |-> "count_emergency_phones_along_route", phones |-> phones,
                   route_coords |-> Get(route, "coordinates", <<>>),
                   result |-> Ok(count_emergency_phones_along_route(
                                     phones, Get(route, "coordinates", <<>>), 2))]
    /\ UNCHANGED <<altVars, call, cmp, G, ghour, tcall, rcall, appVars>>

\* estimate_patrol_frequency(traffic_stops, route_coords)
EstimatePatrolFrequency ==
    /\ dcall.fn = "none"
    /\ \E traffic_stops \in StopTables, route \in RouteDicts :
         dcall' = [fn |-> "estimate_patrol_frequency", traffic_stops |-> traffic_stops,
                   route_coords |-> Get(route, "coordinates", <<>>),
                   result |-> Ok(estimate_patrol_frequency(
                                     traffic_stops, Get(route, "coordinates", <<>>), 5))]
    /\ UNCHANGED <<altVars, call, cmp, G, ghour, tcall, rcall, appVars>>

\* score_route(route, crimes, phones, traffic_stops, hour, mode)
ScoreRouteOnTables ==
    /\ dcall.fn = "none"
    /\ \E route \in RouteDicts, crimes \in CrimeTables, phones \in PhoneTables,
          traffic_stops \in StopTables, hour \in HourArgs, mode \in CompareModes :
         \E result \in score_route_on_tables(route, crimes, phones, traffic_stops, hour, mode) :
             dcall' = [fn |-> "score_route", route |-> route, crimes |-> crimes,
                       phones |-> phones, traffic_stops |-> traffic_stops,
                       hour |-> hour, mode |-> mode, result |-> result]
    /\ UNCHANGED <<altVars, call, cmp, G, ghour, tcall, rcall, appVars>>

NextData ==
    \/ ComputeCrimeDensity
    \/ CountEmergencyPhones
    \/ EstimatePatrolFrequency
    \/ ScoreRouteOnTables

SpecData == InitData /\ [][NextData]_vars

(***************************************************************************)
(* Properties of missing and empty tables.                                 *)
(***************************************************************************)
\* phones is None or has no row.
PhonesMissing(phones) == phones = NoTable \/ phones.rows = <<>>

\* traffic_stops is None, has no row, lacks a lat or lon column, or has no row
\* with a coordinate value.
StopsMissing(stops) ==
    \/ stops = NoTable
    \/ stops.rows = <<>>
    \/ "lat" \notin stops.columns
    \/ "lon" \notin stops.columns
    \/ \A i \in 1..Len(stops.rows) : stops.rows[i].coord = <<>>

\* C19: missing auxiliary data never raises and contributes nothing: without
\* phones the count and phone_reduction are 0, without usable patrol samples the
\* patrol level is "unknown" and patrol_reduction is 0, in the two helpers and in
\* score_route (given an incident table).
C19_MissingAuxiliaryData ==
    /\ (dcall.fn = "count_emergency_phones_along_route" /\ PhonesMissing(dcall.phones)) =>
           (dcall.result.outcome = "returned" /\ dcall.result.value = 0)
    /\ (dcall.fn = "estimate_patrol_frequency" /\ StopsMissing(dcall.traffic_stops)) =>
           /\ dcall.result.outcome = "returned"
           /\ dcall.result.value.patrol_level = "unknown"
           /\ dcall.result.value.stop_count = 0
    /\ (dcall.fn = "score_route" /\ dcall.crimes # NoTable
        /\ (PhonesMissing(dcall.phones) \/ StopsMissing(dcall.traffic_stops))) =>
           /\ dcall.result.outcome = "returned"
           /\ PhonesMissing(dcall.phones) =>
                  /\ dcall.result.value.emergency_phones_nearby = 0
                  /\ dcall.result.value.phone_reduction = 0
           /\ StopsMissing(dcall.traffic_stops) =>
                  /\ dcall.result.value.patrol_level = "unknown"
                  /\ dcall.result.value.patrol_reduction = 0

\* A route with a robbery in its corridor scored without a phone table and with
\* patrol samples that carry no coordinate value.
C19_Witness ==
    /\ dcall.fn = "score_route"
    /\ dcall.route = [coordinates |-> <<0, 4>>, distance_m |-> 4000]
    /\ dcall.crimes = Table(CrimeColumns, <<Incident(1, "Robbery")>>)
    /\ dcall.phones = NoTable
    /\ dcall.traffic_stops = Table({"lat", "lon"}, <<Stops(<<>>, 50)>>)
    /\ dcall.result.outcome = "returned"
    /\ dcall.result.value.crime_stats.total_crimes = 1
    /\ dcall.result.value.phone_reduction = 0
    /\ dcall.result.value.patrol_level = "unknown"

\* C20: compute_crime_density_along_route returns the all-zero aggregate, and does
\* not raise, when the incident table is empty, when the route has no coordinate
\* or fewer than two, and when no incident lies in the corridor.
C20_ZeroAggregate ==
    (/\ dcall.fn = "compute_crime_density_along_route"
     /\ dcall.crimes # NoTable
     /\ \/ dcall.crimes.rows = <<>>
        \/ Len(dcall.route_coords) < 2
        \/ \A i \in 1..Len(dcall.crimes.rows) :
               DistToLine(dcall.crimes.rows[i].pos, dcall.route_coords) >= 2) =>
        /\ dcall.result.outcome = "returned"
        /\ dcall.result.value.total_crimes = 0
        /\ dcall.result.value.violent_crimes = 0
        /\ dcall.result.value.by_category = <<>>
        /\ dcall.result.value.avg_severity = 0
        /\ dcall.result.value.recent_crimes_30d = 0
        /\ dcall.result.value.recent_crimes_7d = 0

\* Two incidents, both 500 m beyond the end of a two-coordinate route.
C20_Witness ==
    /\ dcall.fn = "compute_crime_density_along_route"
    /\ dcall.route_coords = <<0, 4>>
    /\ dcall.crimes = Table(CrimeColumns, <<Incident(9, "Robbery"), Incident(9, "Theft/Larceny")>>)
    /\ dcall.result = Ok(ZeroAggregate)

(***************************************************************************)
(* Properties of compare_routes on its arguments.                          *)
(***************************************************************************)
\* C21: after compare_routes the caller's list holds the same routes in the same
\* order, each with the keys and values it had: no risk_score, crime_stats or
\* recommendation has been added to an input route.
C21_InputsUnchanged ==
    Compared =>
        /\ Len(cmp.routes_after) = Len(cmp.routes)
        /\ \A i \in 1..Len(cmp.routes) :
               /\ cmp.routes_after[i] = cmp.routes[i]
               /\ DOMAIN cmp.routes_after[i]
                      = {"name", "distance_m", "estimated_time_min", "corridor"}
        /\ cmp.out_on_heap = cmp.out

\* The riskier route was handed over first: the result is in another order than
\* the input and carries the added keys.
C21_Witness ==
    /\ Compared
    /\ Len(cmp.routes) = 2
    /\ cmp.routes[1].name = "alley"
    /\ cmp.routes[2].name = "quad"
    /\ cmp.out[1].name = "quad"
    /\ "recommendation" \in DOMAIN cmp.out[1]
    /\ cmp.routes_after[1].name = "alley"

(***************************************************************************)
(* Properties of the safest and the fastest route of one request.          *)
(***************************************************************************)
CrimeFree(g) ==
    \A e \in g.edges : Get(e, "crime_count", 0) = 0 /\ Get(e, "violent_crime_count", 0) = 0

\* What the other of the two searches may return for the arguments of the call.
OtherSearch ==
    IF rcall.fn = "find_safest_route"
    THEN find_fastest_route(net, rcall.origin, rcall.destination, rcall.hour)
    ELSE find_safest_route(net, rcall.origin, rcall.destination, rcall.hour)

\* C22: for the same network, origin, destination and hour, find_safest_route and
\* find_fastest_route start and end at the same nodes (both fail or both return a
\* route between the same two nodes), and on a network without crime counts the
\* score, level and color they report are equal.
C22_SameNodesAndCrimeFreeScore ==
    (Searched /\ rcall.fn \in {"find_safest_route", "find_fastest_route"}) =>
        \A other \in OtherSearch :
            /\ (rcall.out = ErrorResult) <=> (other = ErrorResult)
            /\ rcall.out # ErrorResult =>
                   /\ other.coordinates[1] = rcall.out.coordinates[1]
                   /\ other.coordinates[Len(other.coordinates)]
                          = rcall.out.coordinates[Len(rcall.out.coordinates)]
                   /\ rcall.out.coordinates[1] = nearest_nodes(net, rcall.origin)
                   /\ CrimeFree(net) =>
                          /\ other.risk_score.score = rcall.out.risk_score.score
                          /\ other.risk_score.level = rcall.out.risk_score.level
                          /\ other.risk_score.color = rcall.out.risk_score.color

\* The safest route of the crime-free graph runs past a phone and is 600 m long;
\* the fastest one between the same nodes is another route.
C22_Witness ==
    /\ rcall.fn = "find_safest_route"
    /\ net = Quiet
    /\ rcall.origin = 14
    /\ rcall.out # ErrorResult
    /\ rcall.out.coordinates = <<1, 3>>
    /\ rcall.out.emergency_phones_score = 100
    /\ \E other \in OtherSearch : other.coordinates = <<1, 2, 3>>
    /\ rcall.out.risk_score.score = 0

PatrolEstimated == dcall.fn = "estimate_patrol_frequency"

\* The number of stops with a coordinate value within 500 m of the mean of the
\* route's coordinates.
NearCentroid(stops, coords) ==
    LET near == {i \in 1..Len(stops.rows) :
                    /\ stops.rows[i].coord # <<>>
                    /\ Abs(Len(coords) * stops.rows[i].coord[1] - SumCoords(coords))
                           <= 5 * Len(coords)}
        RECURSIVE Total(_)
        Total(S) == IF S = {} THEN 0
                    ELSE LET i == CHOOSE j \in S : TRUE
                         IN  stops.rows[i].n + Total(S \ {i})
    IN  Total(near)

ClassifiedByCount(stops, coords, level) ==
    LET n == NearCentroid(stops, coords)
    IN  /\ n >= 50 => level = "high"
        /\ (15 <= n /\ n < 50) => level = "moderate"
        /\ n < 15 => level = "low"

\* C24 as stated: the level is "unknown" exactly when the samples carry no
\* usable coordinate data, and follows the count thresholds otherwise.
C24_UnknownOnlyWithoutSampleCoordinates ==
    PatrolEstimated =>
        /\ dcall.result.outcome = "returned"
        /\ (dcall.result.value.patrol_level = "unknown") <=> StopsMissing(dcall.traffic_stops)
        /\ ~StopsMissing(dcall.traffic_stops) /\ dcall.route_coords # <<>> =>
               ClassifiedByCount(dcall.traffic_stops, dcall.route_coords,
                                 dcall.result.value.patrol_level)

\* C24 amended: the level is "unknown" exactly when the samples carry no usable
\* coordinate data or the route has no coordinate; otherwise 50 or more stops
\* near the centroid give "high", 15 to 49 "moderate", fewer "low".
C24_PatrolClassification ==
    PatrolEstimated =>
        /\ dcall.result.outcome = "returned"
        /\ (dcall.result.value.patrol_level = "unknown") <=>
               (StopsMissing(dcall.traffic_stops) \/ dcall.route_coords = <<>>)
        /\ ~StopsMissing(dcall.traffic_stops) /\ dcall.route_coords # <<>> =>
               /\ ClassifiedByCount(dcall.traffic_stops, dcall.route_coords,
                                    dcall.result.value.patrol_level)
               /\ dcall.result.value.stop_count
                      = NearCentroid(dcall.traffic_stops, dcall.route_coords)

\* Fifty stops within the buffer of the centroid of a two-point route: "high".
C24_Witness ==
    /\ PatrolEstimated
    /\ dcall.route_coords = <<0, 4>>
    /\ ~StopsMissing(dcall.traffic_stops)
    /\ NearCentroid(dcall.traffic_stops, dcall.route_coords) = 50
    /\ dcall.result.value.patrol_level = "high"

(***************************************************************************)
(* Properties of the order of the alternatives.                            *)
(***************************************************************************)
OrderedByDistance ==
    \A i \in 1..Len(routes) : \A j \in 1..Len(routes) :
        i < j => routes[i].distance_m <= routes[j].distance_m

C26_ExplicitHourUsed ==
    (/\ rcall.fn \in {"find_safest_route", "find_fastest_route"}
     /\ rcall.hour # <<>>
     /\ "error" \notin DOMAIN rcall.out) =>
        LET h == rcall.hour[1]
            night == h >= 22 \/ h < 6
        IN  ValidHour(h) =>
               /\ rcall.out.risk_score.is_nighttime = night
               /\ rcall.out.risk_score.time_multiplier
                      = (IF night THEN NIGHTTIME_MULTIPLIER ELSE 1)
               /\ \E p \in ShortestPaths(net, nearest_nodes(net, rcall.origin),
                                         nearest_nodes(net, rcall.destination), rcall.weight) :
                      rcall.out = RouteResult(net, p, rcall.weight, h,
                                              rcall.origin, rcall.destination)

(***************************************************************************)
(* Properties of the recency score.                                        *)
(***************************************************************************)
\* The largest number of incidents added to the scored call's recent counts.
MaxAdded == 4

\* The statistics of the scored call with d incidents more in the last 7 days,
\* the 30-day count and the total raised as far as the 7-day count needs.
WithRecent(d, raised) ==
    LET r7  == call.stats.recent_crimes_7d + d
        r30 == IF raised THEN call.stats.recent_crimes_30d + d
               ELSE call.stats.recent_crimes_30d
        tot == IF r30 > call.stats.total_crimes THEN r30 ELSE call.stats.total_crimes
    IN  [call.stats EXCEPT !.recent_crimes_7d = r7, !.recent_crimes_30d = r30,
                           !.total_crimes = tot]

\* The recency_score score_route gives the statistics: it depends on the two
\* counts alone.
RecencyOf(stats) == RecencyScore(stats.recent_crimes_7d, stats.recent_crimes_30d)

max_iterations == 10

\* The number of chat() calls on the history.
MaxChats == 2

Message(role, content) == [role |-> role, content |-> content]

InitChat ==
    /\ conversation_history = <<>>
    /\ chat = [pc |-> "ready", iteration |-> 0, calls |-> 0, returned |-> "none"]
    /\ net = "idle" /\ orig_node = "idle" /\ dest_node = "idle"
    /\ num_alternatives = "idle" /\ weight = "idle" /\ pc = "idle"
    /\ yielded = "idle" /\ routes = "idle" /\ seen_lengths = "idle"
    /\ count = "idle" /\ pulled = "idle"
    /\ call = "idle" /\ cmp = "idle" /\ G = "idle" /\ ghour = "idle" /\ tcall = "idle"
    /\ rcall = "idle" /\ dcall = "idle"
    /\ xcall = "idle" /\ session_state = "idle" /\ run = "idle"

\* chat() without an API key: the notice is returned, the history is as it was.
ChatWithoutKey ==
    /\ chat.pc = "ready"
    /\ chat.calls < MaxChats
    /\ chat' = [pc |-> "ready", iteration |-> 0, calls |-> chat.calls + 1,
                returned |-> "no_key"]
    /\ UNCHANGED <<altVars, call, cmp, G, ghour, tcall, rcall, dcall,
                   conversation_history, xcall, session_state, run>>

\* chat() with a key: the user message is appended and the loop entered.
ChatBegin ==
    /\ chat.pc = "ready"
    /\ chat.calls < MaxChats
    /\ conversation_history' = Append(conversation_history, Message("user", "text"))
    /\ chat' = [pc |-> "loop", iteration |-> 0, calls |-> chat.calls + 1,
                returned |-> "none"]
    /\ UNCHANGED <<altVars, call, cmp, G, ghour, tcall, rcall, dcall,
                   xcall, session_state, run>>

\* An iteration whose response has stop_reason "tool_use": the response and the
\* tool results are appended.
ToolUseResponse ==
    /\ chat.pc = "loop"
    /\ chat.iteration < max_iterations
    /\ conversation_history' = conversation_history
                                 \o <<Message("assistant", "tool_use"),
                                      Message("user", "tool_result")>>
    /\ chat' = [chat EXCEPT !.iteration = @ + 1]
    /\ UNCHANGED <<altVars, call, cmp, G, ghour, tcall, rcall, dcall,
                   xcall, session_state, run>>

\* An iteration with any other stop_reason: the response is appended and its
\* text returned.
FinalResponse ==
    /\ chat.pc = "loop"
    /\ chat.iteration < max_iterations
    /\ conversation_history' = Append(conversation_history, Message("assistant", "final"))
    /\ chat' = [chat EXCEPT !.pc = "ready", !.returned = "text"]
    /\ UNCHANGED <<altVars, call, cmp, G, ghour, tcall, rcall, dcall,
                   xcall, session_state, run>>

\* The for loop ran out: the apology is returned with the history as it is.
IterationLimit ==
    /\ chat.pc = "loop"
    /\ chat.iteration = max_iterations
    /\ chat' = [chat EXCEPT !.pc = "ready", !.returned = "too_many_steps"]
    /\ UNCHANGED <<altVars, call, cmp, G, ghour, tcall, rcall, dcall,
                   conversation_history, xcall, session_state, run>>

NextChat ==
    \/ ChatWithoutKey
    \/ ChatBegin
    \/ ToolUseResponse
    \/ FinalResponse
    \/ IterationLimit

SpecChat == InitChat /\ [][NextChat]_vars

\* C28: the history alternates user and assistant messages, the first one a user
\* message, at every point of every sequence of chat() calls.
C28_HistoryAlternates ==
    \A i \in 1..Len(conversation_history) :
        conversation_history[i].role = (IF i % 2 = 1 THEN "user" ELSE "assistant")

(***************************************************************************)
(* agent.execute_tool.  The JSON text it returns is the object it encodes; *)
(* a location is one position along the street, as in the searches.  What  *)
(* the data holds near a location, whether a loader or a library call      *)
(* raises, and the clock are the environment's choice.                     *)
(***************************************************************************)
ToolNames == {"query_crimes_near_location", "get_route_safety_score",
              "check_shuttle_schedule", "get_recent_incidents", "explain_safety_factors"}

\* app_state.get("graph") is None.
NoGraph == [none |-> TRUE]

\* JSON null, what json.dumps writes for None.
JsonNull == "null"

ErrorJson(message) == [error |-> message]

\* The five fields execute_tool copies from a route result with .get.
RouteSummary(route) ==
    [distance_m            |-> Get(route, "distance_m", JsonNull),
     duration_min          |-> Get(route, "duration_min", JsonNull),
     risk_score            |-> Get(route, "risk_score", JsonNull),
     crime_count_nearby    |-> Get(route, "crime_count_nearby", JsonNull),
     violent_crimes_nearby |-> Get(route, "violent_crimes_nearby", JsonNull)]

\* The get_route_safety_score branch: every pair of results the two searches may
\* give, stored in app_state and summarised.
route_safety_score(tool_input, app_state, env) ==
    IF app_state.graph = NoGraph
    THEN {[result |-> ErrorJson("Graph not loaded. Please run data ingestion first."),
           app_state |-> app_state]}
    ELSE IF ~({"origin", "dest"} \subseteq DOMAIN tool_input)
    THEN {[result |-> ErrorJson("KeyError"), app_state |-> app_state]}
    ELSE IF env.raises
    THEN {[result |-> ErrorJson("Exception"), app_state |-> app_state]}
    ELSE LET hour == Get(tool_input, "hour", env.clock)
         IN  {[result |-> [safest_route        |-> RouteSummary(safest),
                           fastest_route       |-> RouteSummary(fastest),
                           hour_analyzed       |-> hour,
                           temporal_multiplier |-> safety_get_temporal_multiplier(hour)],
               app_state |-> [graph |-> app_state.graph,
                              last_safest_route  |-> safest,
                              last_fastest_route |-> fastest]] :
                 safest  \in find_safest_route(app_state.graph, tool_input.origin,
                                               tool_input.dest, <<hour>>),
                 fastest \in find_fastest_route(app_state.graph, tool_input.origin,
                                                tool_input.dest, <<hour>>)}

\* The branches that look incidents up around one location.
location_tool(tool_name, tool_input, app_state, env) ==
    IF ~({"latitude", "longitude"} \subseteq DOMAIN tool_input)
    THEN {[result |-> ErrorJson("KeyError"), app_state |-> app_state]}
    ELSE IF tool_name = "check_shuttle_schedule"
    THEN {[result |-> [location |-> tool_input, shuttle_routes |-> 5,
                       service_note |-> env.clock, real_time_tracking |-> "url"],
           app_state |-> app_state]}
    ELSE IF env.raises
    THEN {[result |-> ErrorJson("Exception"), app_state |-> app_state]}
    ELSE IF tool_name = "query_crimes_near_location"
    THEN {[result |-> IF env.nearby = 0
                      THEN [total_incidents |-> 0, message |-> "No crime incidents found"]
                      ELSE [total_incidents |-> env.nearby, violent_incidents |-> 0,
                            by_category |-> <<>>, radius_meters |-> 500,
                            location |-> tool_input],
           app_state |-> app_state]}
    ELSE IF tool_name = "get_recent_incidents"
    THEN {[result |-> IF env.nearby = 0
                      THEN [incidents |-> <<>>, message |-> "No recent incidents found"]
                      ELSE [incidents |-> env.nearby, total_nearby |-> env.nearby],
           app_state |-> app_state]}
    ELSE {[result |-> [location |-> tool_input,
                       crime_analysis |-> [incidents_within_500m |-> env.nearby],
                       infrastructure |-> <<>>,
                       temporal_risk |-> [hour |-> Get(tool_input, "hour", env.clock)]],
           app_state |-> app_state]}

\* execute_tool(tool_name, tool_input, app_state): the JSON objects it may return
\* with the app_state it leaves; `except Exception` turns whatever a branch raises
\* into an error object.
execute_tool(tool_name, tool_input, app_state, env) ==
    IF tool_name = "get_route_safety_score"
    THEN route_safety_score(tool_input, app_state, env)
    ELSE IF tool_name \in ToolNames
    THEN location_tool(tool_name, tool_input, app_state, env)
    ELSE {[result |-> ErrorJson("Unknown tool"), app_state |-> app_state]}

\* The inputs a tool_use block may carry: with and without a required key, with
\* and without the optional hour.
ToolInputs(tool_name, g) ==
    IF tool_name = "get_route_safety_score"
    THEN IF g = NoGraph THEN {[origin |-> 10, dest |-> 20]}
         ELSE UNION {{[origin |-> o, dest |-> d], [origin |-> o],
                      [origin |-> o, dest |-> d, hour |-> 0],
                      [origin |-> o, dest |-> d, hour |-> 14]} :
                        o \in {NodePos(n) : n \in g.nodes}, d \in {NodePos(n) : n \in g.nodes}}
    ELSE {[latitude |-> 10, longitude |-> 10], [latitude |-> 10],
          [latitude |-> 10, longitude |-> 10, hour |-> 3]}

Environments == [raises : BOOLEAN, nearby : 0..MaxCrimes, clock : ClockHours]

InitTool ==
    /\ xcall = [fn |-> "none"]
    /\ net = "idle" /\ orig_node = "idle" /\ dest_node = "idle"
    /\ num_alternatives = "idle" /\ weight = "idle" /\ pc = "idle"
    /\ yielded = "idle" /\ routes = "idle" /\ seen_lengths = "idle"
    /\ count = "idle" /\ pulled = "idle"
    /\ call = "idle" /\ cmp = "idle" /\ G = "idle" /\ ghour = "idle" /\ tcall = "idle"
    /\ rcall = "idle" /\ dcall = "idle"
    /\ conversation_history = "idle" /\ chat = "idle"
    /\ session_state = "idle" /\ run = "idle"

\* execute_tool(tool_name, tool_input, app_state)
ExecuteTool ==
    /\ xcall.fn = "none"
    /\ \E tool_name \in ToolNames \cup {"get_weather"},
          graph \in RouteNetworks \cup {NoGraph}, env \in Environments :
         \E tool_input \in ToolInputs(tool_name, graph) :
           \E out \in execute_tool(tool_name, tool_input, [graph |-> graph], env) :
             xcall' = [fn |-> "execute_tool", tool_name |-> tool_name,
                       tool_input |-> tool_input, graph |-> graph, env |-> env,
                       outcome |-> "returned", result |-> out.result,
                       app_state |-> out.app_state]
    /\ UNCHANGED <<altVars, call, cmp, G, ghour, tcall, rcall, dcall,
                   conversation_history, chat, session_state, run>>

NextTool == ExecuteTool

SpecTool == InitTool /\ [][NextTool]_vars

ToolCalled == xcall.fn = "execute_tool"

\* The failures of a tool call.
UnknownTool == xcall.tool_name \notin ToolNames

GraphNotLoaded == xcall.tool_name = "get_route_safety_score" /\ xcall.graph = NoGraph

MissingKey ==
    IF xcall.tool_name = "get_route_safety_score"
    THEN xcall.graph # NoGraph /\ ~({"origin", "dest"} \subseteq DOMAIN xcall.tool_input)
    ELSE xcall.tool_name \in ToolNames
         /\ ~({"latitude", "longitude"} \subseteq DOMAIN xcall.tool_input)

RaisedInside ==
    /\ xcall.env.raises
    /\ xcall.tool_name \in ToolNames \ {"check_shuttle_schedule"}
    /\ ~GraphNotLoaded /\ ~MissingKey

NoPathBetweenEndpoints ==
    /\ xcall.tool_name = "get_route_safety_score"
    /\ ~GraphNotLoaded /\ ~MissingKey /\ ~RaisedInside
    /\ ~Reachable(xcall.graph, nearest_nodes(xcall.graph, xcall.tool_input.origin),
                  nearest_nodes(xcall.graph, xcall.tool_input.dest))

\* C29: execute_tool returns, and after an unknown tool name, a graph that is not
\* loaded, an exception inside the tool or a route request without a path the
\* object it returns has an "error" key.
C29_FailuresCarryError ==
    ToolCalled =>
        /\ xcall.outcome = "returned"
        /\ (UnknownTool \/ GraphNotLoaded \/ MissingKey \/ RaisedInside
            \/ NoPathBetweenEndpoints) => "error" \in DOMAIN xcall.result

(***************************************************************************)
(* app.py: one Streamlit session.  Every interaction reruns the script; an *)
(* action is one such run.  The graph of each travel mode is a fixed       *)
(* network; of the alternatives compute_routes_for_mode returns the model  *)
(* keeps the best one, and it leaves the scores out of the scored list:    *)
(* the properties concern the request a list was computed for.             *)
(***************************************************************************)
TravelModes == {"walk", "bike", "drive"}

\* load_graph(mode)
load_graph(mode) ==
    CASE mode = "walk"  -> Campus
      [] mode = "bike"  -> Quiet
      [] mode = "drive" -> Parallel

\* The places of the location list; None is <<>>.
Places == {<<NodePos(n)>> : n \in 1..3}

\* compute_routes_for_mode(origin, dest, mode, num_alternatives=3): the lists it
\* may return, each route tagged with its mode.
compute_routes_for_mode(origin, dest, mode) ==
    LET g == load_graph(mode)
        o == nearest_nodes(g, origin[1])
        d == nearest_nodes(g, dest[1])
    IN  {IF r = None THEN <<>> ELSE << [mode |-> mode] @@ r >> :
            r \in IF ShortestPaths(g, o, d, "length") = {} THEN {None}
                  ELSE {extract_route_info(g, p, origin, dest) :
                           p \in ShortestPaths(g, o, d, "length")}}

InitApp ==
    /\ session_state = [origin_coords |-> <<>>, dest_coords |-> <<>>,
                        travel_mode |-> "walk", scored_routes |-> <<>>,
                        graphs_ready |-> {}]
    /\ run = [pressed |-> "none"]
    /\ net = "idle" /\ orig_node = "idle" /\ dest_node = "idle"
    /\ num_alternatives = "idle" /\ weight = "idle" /\ pc = "idle"
    /\ yielded = "idle" /\ routes = "idle" /\ seen_lengths = "idle"
    /\ count = "idle" /\ pulled = "idle"
    /\ call = "idle" /\ cmp = "idle" /\ G = "idle" /\ ghour = "idle" /\ tcall = "idle"
    /\ rcall = "idle" /\ dcall = "idle"
    /\ conversation_history = "idle" /\ chat = "idle" /\ xcall = "idle"

\* A run after the origin was picked.
SelectOrigin ==
    /\ \E coords \in Places :
         session_state' = [session_state EXCEPT !.origin_coords = coords]
    /\ run' = [pressed |-> "origin"]
    /\ UNCHANGED <<altVars, call, cmp, G, ghour, tcall, rcall, dcall,
                   conversation_history, chat, xcall>>

\* A run after the destination was picked.
SelectDestination ==
    /\ \E coords \in Places :
         session_state' = [session_state EXCEPT !.dest_coords = coords]
    /\ run' = [pressed |-> "destination"]
    /\ UNCHANGED <<altVars, call, cmp, G, ghour, tcall, rcall, dcall,
                   conversation_history, chat, xcall>>

\* A run after the travel mode radio changed.
SelectMode ==
    /\ \E mode \in TravelModes :
         session_state' = [session_state EXCEPT !.travel_mode = mode]
    /\ run' = [pressed |-> "mode"]
    /\ UNCHANGED <<altVars, call, cmp, G, ghour, tcall, rcall, dcall,
                   conversation_history, chat, xcall>>

\* The run of a press on Calculate Routes: the button is enabled once both
\* places are set.  The download of a graph that is not ready may fail, and the
\* routing may raise.
CalculateRoutes ==
    /\ session_state.origin_coords # <<>>
    /\ session_state.dest_coords # <<>>
    /\ LET origin == session_state.origin_coords
           dest   == session_state.dest_coords
           mode   == session_state.travel_mode
           request == [pressed |-> "calculate", origin |-> origin, dest |-> dest,
                       mode |-> mode]
       IN  \E download_fails \in BOOLEAN, routing_raises \in BOOLEAN :
             IF mode \notin session_state.graphs_ready /\ download_fails
             THEN /\ run' = [outcome |-> "download_failed"] @@ request
                  /\ UNCHANGED session_state
             ELSE \E found \in (IF routing_raises THEN {<<>>}
                                ELSE compute_routes_for_mode(origin, dest, mode)) :
                    IF found = <<>>
                    THEN /\ run' = [outcome |-> "no_route"] @@ request
                         /\ session_state' =
                              [session_state EXCEPT !.graphs_ready = @ \cup {mode}]
                    ELSE /\ run' = [outcome |-> "scored"] @@ request
                         /\ session_state' =
                              [session_state EXCEPT !.graphs_ready = @ \cup {mode},
                                                    !.scored_routes = found]
    /\ UNCHANGED <<altVars, call, cmp, G, ghour, tcall, rcall, dcall,
                   conversation_history, chat, xcall>>

\* The run of a press on Clear Session.
ClearSession ==
    /\ session_state' = [session_state EXCEPT !.scored_routes = <<>>]
    /\ run' = [pressed |-> "clear"]
    /\ UNCHANGED <<altVars, call, cmp, G, ghour, tcall, rcall, dcall,
                   conversation_history, chat, xcall>>

NextApp ==
    \/ SelectOrigin
    \/ SelectDestination
    \/ SelectMode
    \/ CalculateRoutes
    \/ ClearSession

SpecApp == InitApp /\ [][NextApp]_vars

Calculated == run.pressed = "calculate"

\* C30: after a Calculate Routes run the scored routes of the session are those
\* of the run's origin, destination and mode, and none are left when the run
\* found no route.
C30_ScoredRoutesOfThisRequest ==
    Calculated =>
        /\ \A i \in 1..Len(session_state.scored_routes) :
               /\ session_state.scored_routes[i].origin = run.origin
               /\ session_state.scored_routes[i].destination = run.dest
               /\ session_state.scored_routes[i].mode = run.mode
        /\ run.outcome = "no_route" => session_state.scored_routes = <<>>

====
